---- MODULE Spec2Model ----
(***************************************************************************)
(* Verification model of the QDOGE airdrop backend (src/be/app):           *)
(*   - the largest-remainder allocation (services/airdrop.py), with the    *)
(*     IEEE-754 double arithmetic the code performs modelled bit by bit;   *)
(*   - the transaction lookup polling loop (services/rpc.py);              *)
(*   - the role resolver (core/roles.py);                                  *)
(*   - the claim confirmation handlers (api/public.py) over the tables.    *)
(***************************************************************************)
EXTENDS Integers, Sequences, FiniteSets, TLC

(***************************************************************************)
(* Bounds of the model                                                     *)
(***************************************************************************)
MaxPool == 3
MaxWeight == 4
MaxRetries == 2
MaxTick == 2
LookbackTicks == 1
MaxPortalBal == 2
MaxAwaiting == 2
MaxFlaws == 2

MaxPad == 1

MaxClock == 3

MaxWrites == 2

MaxComputes == 2

MaxRoles == 3

(***************************************************************************)
(* Generic helpers                                                         *)
(***************************************************************************)
Max2(a, b) == IF a >= b THEN a ELSE b

Min2(a, b) == IF a <= b THEN a ELSE b

Pow2Table ==
    <<1, 2, 4, 8, 16, 32, 64, 128, 256, 512, 1024, 2048, 4096, 8192, 16384, 32768,
      65536, 131072, 262144, 524288, 1048576, 2097152, 4194304, 8388608, 16777216,
      33554432, 67108864, 134217728, 268435456, 536870912, 1073741824>>

Pow2(n) == Pow2Table[n + 1]

RECURSIVE SumSeq(_)
SumSeq(s) == IF s = <<>> THEN 0 ELSE Head(s) + SumSeq(Tail(s))

Zeros(n) == [i \in 1..n |-> 0]

(* Python str comparison: lexicographic on code points, a proper prefix is smaller. *)
RECURSIVE StrLess(_, _)
StrLess(a, b) ==
    IF b = <<>> THEN FALSE
    ELSE IF a = <<>> THEN TRUE
    ELSE IF Head(a) # Head(b) THEN Head(a) < Head(b)
    ELSE StrLess(Tail(a), Tail(b))

(***************************************************************************)
(* IEEE-754 binary64 arithmetic, as CPython's float performs it.           *)
(* A positive double is the record [hi, mid, lo, e]: its 53-bit mantissa   *)
(* is hi * 2^36 + mid * 2^18 + lo (hi has 17 bits and its top bit set,     *)
(* mid and lo have 18 bits) and its value is mantissa * 2^e.  Zero has     *)
(* hi = 0.  The limbs keep every intermediate below 2^31; the operators    *)
(* are exact for divisors below 2^13 and integer factors below 2^12.       *)
(***************************************************************************)
MantBits == 53

Limb == 262144

HiTop == 65536

FZero == [hi |-> 0, mid |-> 0, lo |-> 0, e |-> 0]

(* mantissa + 1 ulp, renormalised when it reaches 2^53 *)
FloatInc(x) ==
    IF x.lo + 1 < Limb THEN [x EXCEPT !.lo = x.lo + 1]
    ELSE IF x.mid + 1 < Limb THEN [x EXCEPT !.lo = 0, !.mid = x.mid + 1]
    ELSE IF x.hi + 1 < 2 * HiTop THEN [x EXCEPT !.lo = 0, !.mid = 0, !.hi = x.hi + 1]
    ELSE [hi |-> HiTop, mid |-> 0, lo |-> 0, e |-> x.e + 1]

RECURSIVE NormShift(_, _)
NormShift(w, t) == IF w >= t THEN 0 ELSE 1 + NormShift(2 * w, t)

(* int / int true division, 0 <= w <= t, t > 0: the correctly rounded quotient
   (round to nearest, ties to even), by long division 16 + 18 + 18 bits at a time *)
FloatDiv(w, t) ==
    IF w = 0 THEN FZero
    ELSE LET s == NormShift(w, t)
             r0 == w * Pow2(s) - t
             qa == (r0 * HiTop) \div t
             ra == (r0 * HiTop) % t
             qb == (ra * Limb) \div t
             rb == (ra * Limb) % t
             qc == (rb * Limb) \div t
             rc == (rb * Limb) % t
             down == [hi |-> HiTop + qa, mid |-> qb, lo |-> qc, e |-> 0 - s - (MantBits - 1)]
             up == 2 * rc > t \/ (2 * rc = t /\ qc % 2 = 1)
         IN  IF up THEN FloatInc(down) ELSE down

RECURSIVE BitLen(_)
BitLen(n) == IF n <= 0 THEN 0 ELSE 1 + BitLen(n \div 2)

(* int * float: the int converts exactly, the product is rounded once *)
FloatMulInt(p, x) ==
    IF p = 0 \/ x.hi = 0 THEN FZero
    ELSE LET l == x.lo * p
             m == x.mid * p + (l \div Limb)
             h == x.hi * p + (m \div Limb)
             lo1 == l % Limb
             mid1 == m % Limb
             k == BitLen(h) - 17
             K == Pow2(k)
             dropped == lo1 % K
             down == [hi |-> h \div K,
                      mid |-> (mid1 \div K) + (h % K) * (Limb \div K),
                      lo |-> (lo1 \div K) + (mid1 % K) * (Limb \div K),
                      e |-> x.e + k]
             up == k > 0 /\ (2 * dropped > K \/ (2 * dropped = K /\ down.lo % 2 = 1))
         IN  IF up THEN FloatInc(down) ELSE down

(* int(x): truncation toward zero *)
FloatTrunc(x) ==
    LET f == 0 - x.e
    IN  IF x.hi = 0 \/ f >= MantBits THEN 0
        ELSE IF f >= 36 THEN x.hi \div Pow2(f - 36)
        ELSE IF f >= 18 THEN x.hi * Pow2(36 - f) + (x.mid \div Pow2(f - 18))
        ELSE x.hi * Pow2(36 - f) + x.mid * Pow2(18 - f) + (x.lo \div Pow2(f))

LimbAt(x, a) == IF a = 0 THEN x.lo ELSE IF a = 1 THEN x.mid ELSE IF a = 2 THEN x.hi ELSE 0

(* the 18 mantissa bits j .. j+17 (bit 0 is the least significant, j may be negative) *)
Window(x, j) ==
    LET a == j \div 18
        b == j % 18
    IN  (LimbAt(x, a) \div Pow2(b)) + (LimbAt(x, a + 1) % Pow2(b)) * Pow2(18 - b)

(* x - int(x): exact in binary64; returned as FracLimbs 18-bit digits after the
   binary point (a double below 2^12 built from a divisor below 2^13 has no more) *)
FracLimbs == 4

FloatFrac(x) ==
    [i \in 1..FracLimbs |-> IF x.hi = 0 THEN 0 ELSE Window(x, (0 - x.e) - 18 * i)]

(* a < b for two fractions given by their digits after the point *)
FracLess(a, b) ==
    \E i \in 1..FracLimbs : a[i] < b[i] /\ \A j \in 1..(i - 1) : a[j] = b[j]

(***************************************************************************)
(* State                                                                   *)
(***************************************************************************)
VARIABLES
    pool,        \* _largest_remainder_allocation: the pool argument
    weights,     \* its weights dict, as the sequence of <<key, weight>> in insertion order
    allocation,  \* NoResult before the call, then [status |-> "returned", amounts |-> key :> amount]
    rpc_pc,      \* get_tx_details: position ("start", "get_tick", "get_transfers", "sleep", "done")
    tx_id,       \* its tx_id argument
    max_retries, \* its max_retries argument
    attempt,     \* loop variable of "for attempt in range(1, max_retries + 1)"
    tick,        \* tick returned by get_tick in this attempt
    start,       \* params["startTick"] of this attempt
    url,         \* index into transfer_paths of the next history query
    data,        \* the transfer-history response (its transaction groups) the call returned from;
                 \* a response scanned without a return is dead and not kept
    last_err,    \* last_err, NoError for None
    lookup,      \* outcome of the call: NoResult, a returned TxDetails or the raised RpcError
    tick_calls,  \* number of get_tick calls made
    transfer_calls, \* number of transfer-history queries made
    observed,    \* what the current attempt has seen of the transaction so far
    rpc_log,     \* what the call has met so far: the attempts in which a query failed,
                 \* and whether a response has shown an entry of the requested transaction
    wallet_id,   \* resolve_roles: the wallet_id argument
    portal_bal,  \* its portal_bal argument
    settings,    \* its settings argument
    roles,       \* its return value, NoResult before the call
    role_field,  \* parse_roles / _parse_roles: the stored users.role string
    parsed_roles,  \* outcome of core parse_roles(role_field), NoResult before the call
    listed_roles,  \* outcome of the admin listing's _parse_roles(role_field)
    tables,      \* the tables that exist in the database file
    users,       \* rows of users: [wallet_id, role, access_info]
    registrations, \* rows of registrations: [tx_id, wallet_id, amount_qu, tick]
    tradeins,    \* rows of tradeins: [tx_id, wallet_id, qxmr_amount, qdoge_amount, tick]
    awaiting,    \* confirm requests suspended in their await of get_tx_details
    response,    \* the response of the call that completed last, NoResult once a new call arrives
    db_lock,     \* the confirm_funding call whose connection holds the write lock of the
                 \* database file across its awaits, NoResult when the lock is free
    id_arg,      \* normalize_identity / identity_to_public_key_bytes: the identity argument
    normalized,  \* outcome of normalize_identity(id_arg), NoResult before the call
    public_key,  \* outcome of identity_to_public_key_bytes(id_arg), NoResult before the call
    res,         \* rows of res: [wallet_id, qubic_bal, qearn_bal, portal_bal, qxmr_bal, updated_at]
    fundings,    \* rows of fundings: [tx_id, wallet_id, amount_credited]
    qearn_snapshot,  \* rows of qearn_snapshot: [wallet_id, qearn_amount]
    portal_snapshot, \* rows of portal_snapshot: [wallet_id, portal_amount]
    power_snapshot,  \* rows of power_snapshot: [wallet_id, qxmr_amount]
    clock,       \* what datetime('now') returns
    upserted,    \* the last upsert_res_snapshot call: its arguments, the row before, its result
    allocs,      \* outcomes of the compute_allocations calls made, oldest first
    weight_calls \* number of get_weights_* calls made

allocVars == <<pool, weights, allocation>>

rpcVars == <<rpc_pc, tx_id, max_retries, attempt, tick, start, url, data, last_err, lookup,
             tick_calls, transfer_calls, observed, rpc_log>>

roleVars == <<wallet_id, portal_bal, settings, roles, role_field, parsed_roles, listed_roles>>

vars == <<pool, weights, allocation, rpc_pc, tx_id, max_retries, attempt, tick, start, url,
          data, last_err, lookup, tick_calls, transfer_calls, observed, rpc_log,
          wallet_id, portal_bal, settings, roles, role_field, parsed_roles, listed_roles,
          tables, users, registrations, tradeins, awaiting, response, db_lock,
          id_arg, normalized, public_key,
          res, fundings, qearn_snapshot, portal_snapshot, power_snapshot, clock, upserted,
          allocs, weight_calls>>

confirmVars == <<tables, users, registrations, tradeins, awaiting, response, db_lock>>

codecVars == <<id_arg, normalized, public_key>>

airdropVars == <<res, fundings, qearn_snapshot, portal_snapshot, power_snapshot, clock,
                 upserted, allocs, weight_calls>>

NoResult == [status |-> "none"]

Returned(f) == [status |-> "returned", amounts |-> f]

(***************************************************************************)
(* services/airdrop.py: _largest_remainder_allocation                      *)
(* Strings are sequences of code points ("A" is <<65>>).                   *)
(***************************************************************************)
Keys(ws) == {ws[i][1] : i \in DOMAIN ws}

WeightInt(ws, i) == Max2(0, ws[i][2])

TotalWeight(ws) == SumSeq([i \in DOMAIN ws |-> WeightInt(ws, i)])

(* mutation: every key gets one unit *)
ZeroAllocation_OneEach(ws) == [k \in Keys(ws) |-> 1]

ZeroAllocation(ws) == [k \in Keys(ws) |-> 0]

(* exact = pool * (w_i / total_w), a float, for every entry *)
Exacts(p, ws) ==
    LET total == TotalWeight(ws)
    IN  [i \in DOMAIN ws |-> FloatMulInt(p, FloatDiv(WeightInt(ws, i), total))]

(* fl = int(exact) *)
Floors(exacts) == [i \in DOMAIN exacts |-> FloatTrunc(exacts[i])]

(* exact - fl *)
Remainders(exacts) == [i \in DOMAIN exacts |-> FloatFrac(exacts[i])]

(* mutation: the leftover count loses one unit *)
Remaining_OffByOne(p, floors) == p - SumSeq(floors) - 1

Remaining(p, floors) == p - SumSeq(floors)

(* mutation: equal remainders keep their insertion order *)
SortsBefore_InsertionOrder(ws, rems, i, j) ==
    \/ FracLess(rems[j], rems[i])
    \/ rems[i] = rems[j] /\ i < j

(* entry i sorts before entry j under key (-remainder, wallet) *)
SortsBefore(ws, rems, i, j) ==
    \/ FracLess(rems[j], rems[i])
    \/ rems[i] = rems[j] /\ StrLess(ws[i][1], ws[j][1])

(* 0-based position of entry i in the sorted remainders list *)
SortedPos(ws, rems, i) == Cardinality({j \in DOMAIN ws : SortsBefore(ws, rems, j, i)})

(* mutation: the whole leftover goes to the first entry of the sorted list *)
UnitsAt_AllToFirst(pos, remaining, n) == IF pos = 0 THEN remaining ELSE 0

(* how often "for i in range(remaining): remainders[i % len]" hits position pos *)
UnitsAt(pos, remaining, n) ==
    (remaining \div n) + (IF pos < remaining % n THEN 1 ELSE 0)

IndexOf(ws, k) == CHOOSE i \in DOMAIN ws : ws[i][1] = k

LargestRemainderAllocation(p, ws) ==
    IF p <= 0 \/ ws = <<>> THEN ZeroAllocation(ws)
    ELSE IF TotalWeight(ws) <= 0 THEN ZeroAllocation(ws)
    ELSE LET exacts == Exacts(p, ws)
             floors == Floors(exacts)
             rems == Remainders(exacts)
             remaining == Remaining(p, floors)
         IN  IF remaining <= 0
             THEN [k \in Keys(ws) |-> floors[IndexOf(ws, k)]]
             ELSE [k \in Keys(ws) |->
                     floors[IndexOf(ws, k)]
                     + UnitsAt(SortedPos(ws, rems, IndexOf(ws, k)), remaining, Len(ws))]

(***************************************************************************)
(* Specification SpecAlloc: one call of _largest_remainder_allocation on   *)
(* every pool and weights dict of the bounded input space.                 *)
(***************************************************************************)
AllocKeys == {<<65>>, <<66>>, <<67>>}

PoolValues == (-1..MaxPool) \cup {22, 100}

WeightValues == (-1..MaxWeight) \cup {7, 15}

(* dicts: insertion-ordered, keys distinct *)
WeightMaps ==
    {ws \in UNION {[1..n -> AllocKeys \X WeightValues] : n \in 0..Cardinality(AllocKeys)} :
        \A i, j \in DOMAIN ws : i # j => ws[i][1] # ws[j][1]}

AllocParked == pool = 0 /\ weights = <<>> /\ allocation = NoResult

RpcParked ==
    /\ rpc_pc = "done"
    /\ tx_id = ""
    /\ max_retries = 0
    /\ attempt = 0
    /\ tick = 0
    /\ start = 0
    /\ url = 1
    /\ data = <<>>
    /\ last_err = "None"
    /\ lookup = NoResult
    /\ tick_calls = 0
    /\ transfer_calls = 0
    /\ observed = "nothing"
    /\ rpc_log = [failed |-> {}, appeared |-> FALSE]

ParseParked == role_field = <<>> /\ parsed_roles = NoResult /\ listed_roles = NoResult

RolesArgsParked ==
    /\ wallet_id = <<>>
    /\ portal_bal = 0
    /\ roles = NoResult
    /\ ParseParked

RolesParked ==
    /\ RolesArgsParked
    /\ settings = <<>>

ConfirmParked ==
    /\ tables = {}
    /\ users = {}
    /\ registrations = {}
    /\ tradeins = {}
    /\ awaiting = {}
    /\ response = NoResult
    /\ db_lock = NoResult

CodecParked == id_arg = <<>> /\ normalized = NoResult /\ public_key = NoResult

AirdropParked ==
    /\ res = {}
    /\ fundings = {}
    /\ qearn_snapshot = {}
    /\ portal_snapshot = {}
    /\ power_snapshot = {}
    /\ clock = 0
    /\ upserted = NoResult
    /\ allocs = <<>>
    /\ weight_calls = 0

InitAlloc ==
    /\ pool \in PoolValues
    /\ weights \in WeightMaps
    /\ allocation = NoResult
    /\ RpcParked
    /\ RolesParked
    /\ ConfirmParked
    /\ CodecParked
    /\ AirdropParked

Allocate ==
    /\ allocation = NoResult
    /\ allocation' = Returned(LargestRemainderAllocation(pool, weights))
    /\ UNCHANGED <<pool, weights>>
    /\ UNCHANGED <<rpcVars, roleVars, confirmVars, codecVars, airdropVars>>

NextAlloc == Allocate

SpecAlloc == InitAlloc /\ [][NextAlloc]_vars

SumAmounts(alloc, ws) == SumSeq([i \in DOMAIN ws |-> alloc.amounts[ws[i][1]]])

C14_ZeroAllocation ==
    (allocation # NoResult /\ (pool <= 0 \/ weights = <<>> \/ TotalWeight(weights) <= 0))
        => /\ DOMAIN allocation.amounts = Keys(weights)
           /\ \A k \in Keys(weights) : allocation.amounts[k] = 0

(* a positive pool over two wallets whose weights are 0 and negative *)
C14_Witness ==
    /\ allocation # NoResult
    /\ pool > 0
    /\ Len(weights) = 2
    /\ \E i \in DOMAIN weights : weights[i][2] < 0
    /\ TotalWeight(weights) = 0
    /\ \A k \in Keys(weights) : allocation.amounts[k] = 0

(* the dicts with the same wallet-to-weight pairs, inserted in any order *)
Reorderings(ws) ==
    {[i \in DOMAIN ws |-> ws[perm[i]]] :
        perm \in {f \in [DOMAIN ws -> DOMAIN ws] : \A i, j \in DOMAIN ws : i # j => f[i] # f[j]}}

(* C15: a call with the same pool and the same wallet-to-weight pairs, inserted in any
   order, gives every wallet the amount this call gave it. *)
C15_OrderIndependent ==
    allocation # NoResult
        => \A ws \in Reorderings(weights) :
              LargestRemainderAllocation(pool, ws) = allocation.amounts

(* B was inserted before A, both have remainder 0.5, and the one leftover unit goes to A *)
C15_Witness ==
    /\ allocation # NoResult
    /\ pool = 1
    /\ weights = <<(<<(<<66>>), 1>>), (<<(<<65>>), 1>>)>>
    /\ allocation.amounts[<<65>>] = 1
    /\ allocation.amounts[<<66>>] = 0

(* floor(pool * weight / totalWeight) by integer division *)
ExactFloor(p, ws, i) == (p * WeightInt(ws, i)) \div TotalWeight(ws)

ExactRemainder(p, ws, i) == (p * WeightInt(ws, i)) % TotalWeight(ws)

(* number of wallets that come before entry i when the wallets are sorted by fractional
   remainder descending and then wallet_id ascending *)
RemainderRank(p, ws, i) ==
    Cardinality({j \in DOMAIN ws :
        \/ ExactRemainder(p, ws, j) > ExactRemainder(p, ws, i)
        \/ /\ ExactRemainder(p, ws, j) = ExactRemainder(p, ws, i)
           /\ StrLess(ws[j][1], ws[i][1])})

(* pool - sum(floors), the floors being floor(pool * weight / totalWeight) *)
LeftoverUnits(p, ws) == p - SumSeq([i \in DOMAIN ws |-> ExactFloor(p, ws, i)])

(* C21: with pool > 0 and total weight > 0 the pool - sum(floors) leftover units go, one
   unit each, to the wallets that come first by fractional remainder descending and then
   wallet_id ascending; pool 100 over {A:1, B:1, C:1} gives A=34, B=33, C=33. *)
C21_LeftoverByRemainderThenWallet ==
    (allocation # NoResult /\ pool > 0 /\ TotalWeight(weights) > 0)
        => /\ \A i \in DOMAIN weights :
                 allocation.amounts[weights[i][1]] =
                     ExactFloor(pool, weights, i)
                     + (IF RemainderRank(pool, weights, i) < LeftoverUnits(pool, weights)
                        THEN 1 ELSE 0)
           /\ (pool = 100 /\ Len(weights) = 3 /\ \A i \in DOMAIN weights : weights[i][2] = 1)
                 => /\ allocation.amounts[<<65>>] = 34
                    /\ allocation.amounts[<<66>>] = 33
                    /\ allocation.amounts[<<67>>] = 33

(***************************************************************************)
(* services/rpc.py: QubicRpcClient.get_tx_details                          *)
(***************************************************************************)
NoError == "None"

ErrPending == "transaction found but not finalized yet (moneyFlew=false)"

ErrNotFound == "transaction not found yet"

ErrLookupFailed == "transaction lookup failed"

ErrMissingTxId == "transaction missing txId"

ErrTick == "RPC request error for /v1/tick-info"

ErrTransfers == "RPC request error for /transfers"

Raised(msg) == [status |-> "raised", error |-> msg]

TransferPaths == <<"/v2/identities/transfers", "/v1/identities/transfers">>

(* dict.get(key) or default *)
Get(tx, key, default) == IF key \in DOMAIN tx THEN tx[key] ELSE default

(* _parse_tx: the record it builds; it raises instead when the tx_id field comes out empty *)
ParseTx(tx, money_flew) ==
    [tx_id |-> IF Get(tx, "txId", "") # "" THEN tx.txId ELSE Get(tx, "tx_id", ""),
     source_id |-> Get(tx, "sourceId", <<>>),
     dest_id |-> Get(tx, "destId", <<>>),
     amount |-> Get(tx, "amount", 0),
     tick_number |-> Get(tx, "tickNumber", 0),
     input_type |-> Get(tx, "inputType", 0),
     input_size |-> Get(tx, "inputSize", 0),
     input_hex |-> Get(tx, "inputHex", <<>>),
     money_flew |-> money_flew]

(* index of the first entry of the group whose transaction has this txId, 0 if none *)
FirstMatch(entries, id) ==
    IF \E i \in DOMAIN entries : Get(entries[i].transaction, "txId", "") = id
    THEN CHOOSE i \in DOMAIN entries :
            /\ Get(entries[i].transaction, "txId", "") = id
            /\ \A j \in 1..(i - 1) : Get(entries[j].transaction, "txId", "") # id
    ELSE 0

(* mutation: the moneyFlew test is missing *)
GroupOutcome_IgnoresMoneyFlew(entries, id) ==
    IF FirstMatch(entries, id) = 0 THEN "absent" ELSE "final"

(* the inner "for entry in entries" loop: "final" returns, "pending" breaks, "absent" falls through *)
GroupOutcome(entries, id) ==
    LET i == FirstMatch(entries, id)
    IN  IF i = 0 THEN "absent"
        ELSE IF ~entries[i].moneyFlew THEN "pending"
        ELSE "final"

(* the "for group in tx_groups" loop: index of the group it returns from, 0 if it runs to the end *)
FirstFinalGroup(groups, id) ==
    IF \E g \in DOMAIN groups : GroupOutcome(groups[g], id) = "final"
    THEN CHOOSE g \in DOMAIN groups :
            /\ GroupOutcome(groups[g], id) = "final"
            /\ \A h \in 1..(g - 1) : GroupOutcome(groups[h], id) # "final"
    ELSE 0

(* did the scan pass a matching entry with moneyFlew = false (line 137 executed) *)
SawPending(groups, id) ==
    LET g == FirstFinalGroup(groups, id)
        upto == IF g = 0 THEN Len(groups) ELSE g - 1
    IN  \E h \in 1..upto : GroupOutcome(groups[h], id) = "pending"

(* mutation: an attempt that ends without the transaction ends the call *)
AfterAttempt_GivesUp(att, maxr) == "done"

(* mutation: the loop starts the last attempt over instead of leaving *)
AfterAttempt_NoCeiling(att, maxr) == IF att < maxr THEN "sleep" ELSE "get_tick"

(* where the loop goes when an attempt is over: sleep and retry, or leave the loop *)
AfterAttempt(att, maxr) == IF att < maxr THEN "sleep" ELSE "done"

(* raise RpcError(str(last_err) if last_err else "transaction lookup failed") *)
FinalError(err) == Raised(IF err # NoError THEN err ELSE ErrLookupFailed)

(* outcome of the call once an attempt ended with last_err = err *)
AttemptOutcome(att, maxr, err) == IF att < maxr THEN NoResult ELSE FinalError(err)

(* mutation: the window keeps the width of the first attempt *)
WindowStart_FixedWidth(t, att) == Max2(0, t - LookbackTicks)

(* start = max(0, tick - (lookback_ticks * attempt)) *)
WindowStart(t, att) == Max2(0, t - LookbackTicks * att)

(* transfer-history entries: the requested transaction pending or finalized, another one,
   and one whose transaction carries no txId *)
Entries ==
    {[transaction |-> [txId |-> "T1"], moneyFlew |-> FALSE],
     [transaction |-> [txId |-> "T1"], moneyFlew |-> TRUE],
     [transaction |-> [txId |-> "T2"], moneyFlew |-> TRUE],
     [transaction |-> [tx_id |-> "T1"], moneyFlew |-> TRUE]}

(* a group holds no, one or two entries; a response holds no, one or two groups *)
Groups == {<<>>} \cup {<<a>> : a \in Entries} \cup {<<a, b>> : a, b \in Entries}

Responses == {<<>>} \cup {<<g>> : g \in Groups} \cup {<<g, h>> : g, h \in Groups}

InitRpc ==
    /\ AllocParked
    /\ RolesParked
    /\ ConfirmParked
    /\ CodecParked
    /\ AirdropParked
    /\ rpc_pc = "start"
    /\ tx_id = "T1"
    /\ max_retries \in 0..MaxRetries
    /\ attempt = 0
    /\ tick = 0
    /\ start = 0
    /\ url = 1
    /\ data = <<>>
    /\ last_err = NoError
    /\ lookup = NoResult
    /\ tick_calls = 0
    /\ transfer_calls = 0
    /\ observed = "nothing"
    /\ rpc_log = [failed |-> {}, appeared |-> FALSE]

(* enter the for loop, or fall through it when range(1, max_retries + 1) is empty *)
EnterLoop ==
    /\ rpc_pc = "start"
    /\ IF max_retries >= 1
       THEN /\ attempt' = 1
            /\ rpc_pc' = "get_tick"
            /\ lookup' = lookup
       ELSE /\ attempt' = attempt
            /\ rpc_pc' = "done"
            /\ lookup' = FinalError(last_err)
    /\ UNCHANGED <<tx_id, max_retries, tick, start, url, data, last_err, tick_calls,
                   transfer_calls, observed, rpc_log>>
    /\ UNCHANGED <<allocVars, roleVars, confirmVars, codecVars, airdropVars>>

(* tick = await self.get_tick() succeeds *)
GetTickOk ==
    /\ rpc_pc = "get_tick"
    /\ tick_calls <= MaxRetries
    /\ \E t \in 0..MaxTick :
          /\ tick' = t
          /\ start' = WindowStart(t, attempt)
          /\ rpc_log' = rpc_log
    /\ url' = 1
    /\ rpc_pc' = "get_transfers"
    /\ tick_calls' = tick_calls + 1
    /\ observed' = "nothing"
    /\ UNCHANGED <<tx_id, max_retries, attempt, data, last_err, lookup, transfer_calls>>
    /\ UNCHANGED <<allocVars, roleVars, confirmVars, codecVars, airdropVars>>

(* get_tick raises (HTTP error, timeout, missing tick): except Exception as e: last_err = e *)
GetTickFails ==
    /\ rpc_pc = "get_tick"
    /\ tick_calls <= MaxRetries
    /\ last_err' = ErrTick
    /\ observed' = "rpc_error"
    /\ tick_calls' = tick_calls + 1
    /\ rpc_pc' = AfterAttempt(attempt, max_retries)
    /\ lookup' = AttemptOutcome(attempt, max_retries, ErrTick)
    /\ rpc_log' = [rpc_log EXCEPT !.failed = @ \cup {attempt}]
    /\ UNCHANGED <<tx_id, max_retries, attempt, tick, start, url, data, transfer_calls>>
    /\ UNCHANGED <<allocVars, roleVars, confirmVars, codecVars, airdropVars>>

(* data = await self._get_json(url, ...) succeeds and the groups are scanned *)
GetTransfersOk ==
    /\ rpc_pc = "get_transfers"
    /\ transfer_calls <= Len(TransferPaths) * MaxRetries
    /\ \E resp \in Responses :
        LET g == FirstFinalGroup(resp, tx_id)
            parsed == ParseTx(resp[g][FirstMatch(resp[g], tx_id)].transaction,
                              resp[g][FirstMatch(resp[g], tx_id)].moneyFlew)
            pending == SawPending(resp, tx_id)
            seen == IF pending THEN "pending"
                    ELSE IF observed = "pending" THEN "pending" ELSE "absent"
        IN  /\ data' = IF g # 0 /\ parsed.tx_id # "" THEN resp ELSE <<>>
            /\ transfer_calls' = transfer_calls + 1
            /\ rpc_log' = [rpc_log EXCEPT !.appeared = @ \/ g # 0 \/ pending]
            /\ IF g # 0 /\ parsed.tx_id # ""
               THEN \* return self._parse_tx(tx, money_flew=money_flew)
                    /\ lookup' = [status |-> "returned", tx |-> parsed]
                    /\ rpc_pc' = "done"
                    /\ last_err' = IF pending THEN ErrPending ELSE last_err
                    /\ observed' = "final"
                    /\ url' = url
               ELSE IF g # 0
               THEN \* _parse_tx raises RpcError("transaction missing txId")
                    /\ last_err' = ErrMissingTxId
                    /\ observed' = "rpc_error"
                    /\ rpc_pc' = AfterAttempt(attempt, max_retries)
                    /\ lookup' = AttemptOutcome(attempt, max_retries, ErrMissingTxId)
                    /\ url' = url
               ELSE IF url < Len(TransferPaths)
               THEN \* next url of transfer_paths
                    /\ last_err' = IF pending THEN ErrPending ELSE last_err
                    /\ observed' = seen
                    /\ rpc_pc' = "get_transfers"
                    /\ lookup' = lookup
                    /\ url' = url + 1
               ELSE \* "not found yet": last_err = RpcError("transaction not found yet")
                    /\ last_err' = ErrNotFound
                    /\ observed' = seen
                    /\ rpc_pc' = AfterAttempt(attempt, max_retries)
                    /\ lookup' = AttemptOutcome(attempt, max_retries, ErrNotFound)
                    /\ url' = url
    /\ UNCHANGED <<tx_id, max_retries, attempt, tick, start, tick_calls>>
    /\ UNCHANGED <<allocVars, roleVars, confirmVars, codecVars, airdropVars>>

(* _get_json raises RpcError: except Exception as e: last_err = e *)
GetTransfersFails ==
    /\ rpc_pc = "get_transfers"
    /\ transfer_calls <= Len(TransferPaths) * MaxRetries
    /\ last_err' = ErrTransfers
    /\ observed' = "rpc_error"
    /\ transfer_calls' = transfer_calls + 1
    /\ rpc_pc' = AfterAttempt(attempt, max_retries)
    /\ lookup' = AttemptOutcome(attempt, max_retries, ErrTransfers)
    /\ rpc_log' = [rpc_log EXCEPT !.failed = @ \cup {attempt}]
    /\ UNCHANGED <<tx_id, max_retries, attempt, tick, start, url, data, tick_calls>>
    /\ UNCHANGED <<allocVars, roleVars, confirmVars, codecVars, airdropVars>>

(* await asyncio.sleep(retry_delay_seconds), then the next iteration *)
Sleep ==
    /\ rpc_pc = "sleep"
    /\ attempt' = attempt + 1
    /\ rpc_pc' = "get_tick"
    /\ UNCHANGED <<tx_id, max_retries, tick, start, url, data, last_err, lookup, tick_calls,
                   transfer_calls, observed, rpc_log>>
    /\ UNCHANGED <<allocVars, roleVars, confirmVars, codecVars, airdropVars>>

NextRpc ==
    \/ EnterLoop
    \/ GetTickOk
    \/ GetTickFails
    \/ GetTransfersOk
    \/ GetTransfersFails
    \/ Sleep

SpecRpc == InitRpc /\ [][NextRpc]_vars

(* every await returns (the HTTP calls carry timeouts, the sleep is finite) *)
LiveSpecRpc == SpecRpc /\ WF_vars(NextRpc)

(* C4: whatever the ledger does (transaction absent, pending forever, every call
   failing), get_tx_details makes at most max_retries attempts and then finishes with
   a returned TxDetails or a raised RpcError. *)
C4_BoundedPolling ==
    <>[](/\ rpc_pc = "done"
         /\ lookup.status \in {"returned", "raised"}
         /\ attempt <= max_retries
         /\ tick_calls <= max_retries)

(* the transaction stayed pending through the last of MaxRetries attempts and the call raised *)
C4_Witness ==
    /\ rpc_pc = "done"
    /\ lookup.status = "raised"
    /\ max_retries = MaxRetries
    /\ attempt = MaxRetries
    /\ observed = "pending"

(* C5: a returned TxDetails comes from a history entry whose txId is the requested
   tx_id and whose moneyFlew is true, so its money_flew is true; a response in which
   every matching entry has moneyFlew = false never makes the call return. *)
C5_ReturnsOnlyFinalized ==
    lookup.status = "returned"
        => /\ lookup.tx.tx_id = tx_id
           /\ lookup.tx.money_flew = TRUE
           /\ \E g \in DOMAIN data : \E i \in DOMAIN data[g] :
                 /\ Get(data[g][i].transaction, "txId", "") = tx_id
                 /\ data[g][i].moneyFlew
                 /\ lookup.tx = ParseTx(data[g][i].transaction, TRUE)

(* returned on a retry, from a response whose first group still showed the entry pending *)
C5_Witness ==
    /\ lookup.status = "returned"
    /\ attempt >= 2
    /\ Len(data) = 2
    /\ GroupOutcome(data[1], tx_id) = "pending"

(* C6: the error raised on exhaustion reports what the last attempt observed:
   found-but-not-finalized if it located the transaction with moneyFlew = false,
   not-found if it did not locate it, the RPC error if the attempt raised one. *)
C6_LastObservationReported ==
    (rpc_pc = "done" /\ lookup.status = "raised" /\ attempt >= 1)
        => /\ observed = "pending" => lookup.error = ErrPending
           /\ observed = "absent" => lookup.error = ErrNotFound
           /\ observed = "rpc_error" => lookup.error \in {ErrTick, ErrTransfers, ErrMissingTxId}

(* C22: when the transaction never appears in the transfer history and no RPC call
   fails, the call raises after exactly max_retries tick queries and max_retries * 2
   history queries; the history queries of attempt k ask for the window starting at
   max(0, tick - lookback_ticks * k), tick being the tick that attempt read. *)
C22_ExhaustsRetryBudget ==
    /\ (rpc_pc = "done" /\ rpc_log.failed = {} /\ ~rpc_log.appeared)
          => /\ lookup.status = "raised"
             /\ attempt = max_retries
             /\ tick_calls = max_retries
             /\ transfer_calls = max_retries * 2
             /\ max_retries >= 1 => start = Max2(0, tick - LookbackTicks * max_retries)
    /\ rpc_pc = "get_transfers" => start = Max2(0, tick - LookbackTicks * attempt)

(* MaxRetries attempts on a ledger at the highest tick, none showing the transaction: the
   window of the last attempt starts LookbackTicks * MaxRetries ticks back *)
C22_Witness ==
    /\ rpc_pc = "done"
    /\ max_retries = MaxRetries
    /\ rpc_log.failed = {}
    /\ ~rpc_log.appeared
    /\ lookup.status = "raised"
    /\ transfer_calls = 2 * MaxRetries
    /\ tick = MaxTick
    /\ start = Max2(0, MaxTick - LookbackTicks * MaxRetries)
    /\ start < MaxTick - LookbackTicks

(* C23: an RPC failure during attempt k < max_retries ends that attempt and nothing
   else: the call neither finishes nor makes another query in attempt k but sleeps and
   goes on with attempt k + 1, it raises in no attempt but the last, and a history
   response that shows the transaction finalized makes the call return whatever failed
   before. *)
C23_FailureConsumesOneAttempt ==
    /\ (attempt \in rpc_log.failed /\ attempt < max_retries)
          => /\ rpc_pc = "sleep"
             /\ lookup = NoResult
    /\ \A k \in rpc_log.failed : k <= attempt
    /\ (lookup.status = "raised" /\ max_retries >= 1) => attempt = max_retries
    /\ observed = "final"
          => /\ rpc_pc = "done"
             /\ lookup.status = "returned"

(* the first attempt failed and a later attempt returned the transaction from a response
   that showed it finalized *)
C23_Witness ==
    /\ lookup.status = "returned"
    /\ 1 \in rpc_log.failed
    /\ attempt >= 2
    /\ observed = "final"

(***************************************************************************)
(* core/roles.py: normalize_roles, resolve_roles; core/config.py: Settings *)
(***************************************************************************)
RoleAdmin == <<97, 100, 109, 105, 110>>

RolePower == <<112, 111, 119, 101, 114>>

RolePortal == <<112, 111, 114, 116, 97, 108>>

RoleCommunity == <<99, 111, 109, 109, 117, 110, 105, 116, 121>>

ROLE_ORDER == <<RoleAdmin, RolePower, RolePortal, RoleCommunity>>

Range(f) == {f[i] : i \in DOMAIN f}

IsSpace(c) == c \in {9, 10, 11, 12, 13, 32}

(* str.strip() *)
RECURSIVE LStrip(_)
LStrip(str) == IF str # <<>> /\ IsSpace(Head(str)) THEN LStrip(Tail(str)) ELSE str

RECURSIVE RStrip(_)
RStrip(str) ==
    IF str # <<>> /\ IsSpace(str[Len(str)]) THEN RStrip(SubSeq(str, 1, Len(str) - 1)) ELSE str

Strip(str) == RStrip(LStrip(str))

(* str.lower() and str.upper() on ASCII *)
Lower(str) == [i \in DOMAIN str |-> IF str[i] \in 65..90 THEN str[i] + 32 ELSE str[i]]

Upper(str) == [i \in DOMAIN str |-> IF str[i] \in 97..122 THEN str[i] - 32 ELSE str[i]]

(* sorted(set of strings) *)
RECURSIVE SortStrings(_)
SortStrings(S) ==
    IF S = {} THEN <<>>
    ELSE LET m == CHOOSE x \in S : \A y \in S \ {x} : StrLess(x, y)
         IN  <<m>> \o SortStrings(S \ {m})

(* the "seen" list: stripped, lower-cased, empty values and repeats skipped *)
RECURSIVE Seen(_)
Seen(raw) ==
    IF raw = <<>> THEN <<>>
    ELSE LET before == Seen(SubSeq(raw, 1, Len(raw) - 1))
             value == Lower(Strip(raw[Len(raw)]))
         IN  IF value = <<>> \/ value \in Range(before) THEN before
             ELSE Append(before, value)

(* mutation: the roles are returned in the order they were collected *)
NormalizeRoles_Unordered(raw) ==
    IF RoleAdmin \in Range(Seen(raw)) THEN <<RoleAdmin>>
    ELSE IF Seen(raw) = <<>> THEN <<RoleCommunity>> ELSE Seen(raw)

NormalizeRoles(raw) ==
    LET seen == Seen(raw)
        ordered == SelectSeq(ROLE_ORDER, LAMBDA r : r \in Range(seen))
        extras == SortStrings({r \in Range(seen) : r \notin Range(ROLE_ORDER)})
        out == ordered \o extras
    IN  IF RoleAdmin \in Range(seen) THEN <<RoleAdmin>>
        ELSE IF out = <<>> THEN <<RoleCommunity>> ELSE out

(* str.split(","): the pieces between the commas, at least one *)
RECURSIVE Split(_)
Split(str) ==
    IF \A i \in DOMAIN str : str[i] # 44 THEN <<str>>
    ELSE LET c == CHOOSE i \in DOMAIN str : str[i] = 44 /\ \A j \in 1..(i - 1) : str[j] # 44
         IN  <<SubSeq(str, 1, c - 1)>> \o Split(SubSeq(str, c + 1, Len(str)))

(* core/roles.py parse_roles *)
ParseRoles(value) ==
    IF Strip(value) = <<>> THEN <<RoleCommunity>>
    ELSE LET pieces == Split(value)
         IN  NormalizeRoles([i \in DOMAIN pieces |-> Strip(pieces[i])])

(* sorted(list of strings): repeats are kept *)
SortList(list) ==
    LET pos(i) == Cardinality({j \in DOMAIN list :
                      StrLess(list[j], list[i]) \/ (list[j] = list[i] /\ j < i)}) + 1
    IN  [k \in DOMAIN list |-> list[CHOOSE i \in DOMAIN list : pos(i) = k]]

(* api/admin.py _parse_roles *)
AdminParseRoles(role_field_arg) ==
    IF Strip(role_field_arg) = <<>> THEN <<RoleCommunity>>
    ELSE LET pieces == SelectSeq(Split(role_field_arg), LAMBDA piece : Strip(piece) # <<>>)
             parts == [i \in DOMAIN pieces |-> Lower(Strip(pieces[i]))]
             ordered == SelectSeq(ROLE_ORDER, LAMBDA r : r \in Range(parts))
             extras == SortList(SelectSeq(parts, LAMBDA r : r \notin Range(ROLE_ORDER)))
             out == ordered \o extras
         IN  IF RoleCommunity \notin Range(out) THEN Append(out, RoleCommunity) ELSE out

(* getattr(obj, name, default) on a record of the object's attributes *)
GetAttr(obj, name, default) == IF name \in DOMAIN obj THEN obj[name] ELSE default

ResolveRoles(w, st, bal) ==
    IF GetAttr(st, "admin_wallet_id", <<>>) # <<>> /\ w = st.admin_wallet_id
    THEN <<RoleAdmin>>
    ELSE NormalizeRoles(<<RoleCommunity>>
                        \o (IF bal > 0 THEN <<RolePortal>> ELSE <<>>)
                        \o (IF w \in DOMAIN st.power_users THEN <<RolePower>> ELSE <<>>))

(* the default ADMIN_WALLETS entry, "KZFJRTYK...SPEOOZE" *)
AdminWallet ==
    <<75, 90, 70, 74, 82, 84, 89, 75, 74, 88, 86, 78, 80, 65, 89, 88, 81, 88, 85, 75,
      77, 80, 75, 65, 72, 87, 87, 66, 87, 86, 87, 71, 76, 83, 70, 77, 69, 70, 79, 75,
      80, 70, 74, 70, 87, 69, 68, 68, 88, 77, 67, 90, 86, 83, 80, 69, 79, 79, 90, 69>>

(* two more identities: "AAA...A" and "BAA...A" *)
WalletA == [i \in 1..60 |-> 65]

WalletB == [i \in 1..60 |-> IF i = 1 THEN 66 ELSE 65]

(***************************************************************************)
(* core/qubic.py: identities, public keys, asset names                     *)
(***************************************************************************)
Ok(v) == [status |-> "returned", value |-> v]

(* mutation: the argument is matched as it is, without strip() and upper() *)
NormalizeIdentity_AsGiven(identity) ==
    IF Len(identity) = 60 /\ \A i \in DOMAIN identity : identity[i] \in 65..90
    THEN Ok(identity)
    ELSE Raised("ValueError: invalid identity format")

(* normalize_identity: strip, upper-case, then ^[A-Z]{60}$ *)
NormalizeIdentity(identity) ==
    LET val == Upper(Strip(identity))
    IN  IF Len(val) = 60 /\ \A i \in DOMAIN val : val[i] \in 65..90
        THEN Ok(val)
        ELSE Raised("ValueError: invalid identity format")

(* n * m + carry on an unbounded little-endian byte string *)
RECURSIVE MulAdd(_, _, _)
MulAdd(bytes, m, carry) ==
    IF bytes = <<>> THEN (IF carry = 0 THEN <<>> ELSE <<carry>>)
    ELSE LET v == Head(bytes) * m + carry
         IN  <<v % 256>> \o MulAdd(Tail(bytes), m, v \div 256)

(* the integer n of one chunk, sum of digit * 26^position, as little-endian bytes *)
RECURSIVE ChunkValue(_)
ChunkValue(chunk) ==
    IF chunk = <<>> THEN <<>>
    ELSE MulAdd(ChunkValue(Tail(chunk)), 26, Head(chunk) - 65)

(* int.to_bytes(8, "little", signed=False): the value has to fit in the 8 bytes *)
ToBytes8(n) ==
    IF Len(n) > 8 THEN Raised("OverflowError: int too big to convert")
    ELSE Ok(n \o [i \in 1..(8 - Len(n)) |-> 0])

IdentityToPublicKeyBytes(identity) ==
    LET norm == NormalizeIdentity(identity)
        word(i) == ToBytes8(ChunkValue(SubSeq(norm.value, 14 * i + 1, 14 * (i + 1))))
    IN  IF norm.status = "raised" THEN norm
        ELSE IF \E i \in 0..3 : word(i).status = "raised"
        THEN word(CHOOSE i \in 0..3 : word(i).status = "raised"
                                      /\ \A j \in 0..(i - 1) : word(j).status = "returned")
        ELSE Ok(word(0).value \o word(1).value \o word(2).value \o word(3).value)

(* int.from_bytes(b, "little", signed=False) *)
RECURSIVE LEValue(_)
LEValue(b) == IF b = <<>> THEN 0 ELSE Head(b) + 256 * LEValue(Tail(b))

(* int.from_bytes(b, "little", signed=True): two's complement *)
IntFromBytesSigned(b) ==
    IF b # <<>> /\ b[Len(b)] >= 128
    THEN -(LEValue([i \in DOMAIN b |-> 255 - b[i]]) + 1)
    ELSE LEValue(b)

(* asset_name_value: the name, zero-padded to 8 bytes, read as a signed int64 *)
AssetNameValue(asset) ==
    LET name == Upper(Strip(asset))
    IN  IF name = <<>> \/ Len(name) > 8
        THEN Raised("ValueError: asset name must be 1..8 chars")
        ELSE Ok(IntFromBytesSigned(name \o [i \in 1..(8 - Len(name)) |-> 0]))

(* "QXMR" *)
QxmrName == <<81, 88, 77, 82>>

HexDigit(c) ==
    IF c \in 48..57 THEN c - 48
    ELSE IF c \in 97..102 THEN c - 87
    ELSE IF c \in 65..70 THEN c - 55
    ELSE -1

(* bytes.fromhex: pairs of adjacent hex digits, white space allowed between the pairs *)
FromHex(str) ==
    LET at == SelectSeq([i \in 1..Len(str) |-> i], LAMBDA i : ~IsSpace(str[i]))
    IN  IF \/ Len(at) % 2 # 0
           \/ \E k \in DOMAIN at : HexDigit(str[at[k]]) < 0
           \/ \E k \in DOMAIN at : k % 2 = 0 /\ at[k] # at[k - 1] + 1
        THEN Raised("ValueError: non-hexadecimal number found in fromhex() arg")
        ELSE Ok([k \in 1..(Len(at) \div 2) |->
                    16 * HexDigit(str[at[2 * k - 1]]) + HexDigit(str[at[2 * k]])])

(***************************************************************************)
(* core/config.py: the Settings that get_settings() builds by default      *)
(***************************************************************************)
(* REGISTRATION_ADDRESS, "QDOGEEES...GMBUTZE" *)
RegistrationAddress ==
    <<81, 68, 79, 71, 69, 69, 69, 83, 75, 89, 80, 65, 73, 67, 69, 67, 72, 69, 65, 72,
      79, 88, 80, 85, 76, 69, 79, 65, 68, 84, 75, 71, 69, 74, 72, 65, 86, 89, 80, 70,
      75, 72, 76, 69, 87, 71, 88, 88, 90, 81, 85, 71, 73, 71, 77, 66, 85, 84, 90, 69>>

(* BURN_ADDRESS, "BURNQCDX...XLDULQL" *)
BurnAddress ==
    <<66, 85, 82, 78, 81, 67, 68, 88, 80, 85, 86, 77, 66, 71, 67, 84, 75, 88, 90, 77,
      76, 82, 67, 81, 89, 85, 87, 66, 80, 90, 82, 69, 85, 67, 68, 73, 80, 69, 67, 90,
      79, 65, 89, 75, 67, 81, 78, 71, 84, 73, 85, 83, 68, 88, 76, 68, 85, 76, 81, 76>>

(* QX_CONTRACT_ID, "AAAA...AAAAFXIB" *)
QxContractId == [i \in 1..56 |-> 65] \o <<70, 88, 73, 66>>

(* QXMR_ISSUER_ID, "QXMRTKAI...MDOEYB": the first value given to qxmr_issuer_id *)
QxmrIssuerId ==
    <<81, 88, 77, 82, 84, 75, 65, 73, 73, 71, 76, 85, 82, 69, 80, 73, 81, 80, 67, 77,
      72, 67, 75, 87, 83, 73, 80, 68, 84, 85, 89, 70, 67, 70, 78, 89, 88, 81, 76, 84,
      69, 67, 83, 85, 74, 86, 89, 69, 77, 77, 68, 69, 76, 66, 77, 68, 79, 69, 89, 66>>

(* QDOGE_ISSUER_ID, "QDOGEFUQ...ZPRHJY": the value qxmr_issuer_id ends up with *)
QdogeIssuerId ==
    <<81, 68, 79, 71, 69, 70, 85, 81, 73, 89, 82, 76, 85, 81, 84, 68, 73, 90, 89, 69,
      70, 74, 85, 67, 87, 89, 75, 88, 65, 75, 67, 80, 68, 79, 86, 85, 80, 85, 77, 86,
      65, 83, 80, 83, 78, 81, 67, 76, 86, 73, 76, 66, 78, 78, 90, 80, 82, 72, 74, 89>>

RegistrationAmountQu == 100

TradeinRatio == 100

(* tradein_pool: int(21_000_000_000 * 0.025) *)
TradeinPool == 525000000

(* power_users is left empty here; SettingsValues below varies it *)
DefaultSettings ==
    [admin_wallets |-> <<AdminWallet>>,
     power_users |-> <<>>,
     registration_address |-> RegistrationAddress,
     registration_amount_qu |-> RegistrationAmountQu,
     burn_address |-> BurnAddress,
     qx_contract_id |-> QxContractId,
     qxmr_issuer_id |-> QdogeIssuerId,
     tradein_ratio_qdoge_per_qxmr |-> TradeinRatio,
     tradein_pool |-> TradeinPool]

Wallets == {AdminWallet, WalletA, WalletB}

(***************************************************************************)
(* core/db.py: the tables; api/public.py: confirm_registration and         *)
(* confirm_tradein                                                         *)
(***************************************************************************)
(* the tables init_db leaves behind: registrations is among those it drops *)
InitDbTables == {"users", "res", "transaction_log", "tradeins"}

(* a database file that also holds the registrations table the handler writes to *)
ProvisionedTables == InitDbTables \cup {"registrations"}

UsersKey == "wallet_id"

TradeinsKey == "tx_id"

RegistrationsKey == "tx_id"

(* mutation: INSERT OR REPLACE *)
InsertOrIgnore_Replaces(table, row, key) == {r \in table : r[key] # row[key]} \cup {row}

(* INSERT OR IGNORE under the table's unique key *)
InsertOrIgnore(table, row, key) ==
    IF \E r \in table : r[key] = row[key] THEN table ELSE table \cup {row}

(* INSERT OR IGNORE INTO users(wallet_id, access_info) VALUES (?, 0) *)
NewUser(wallet) == [wallet_id |-> wallet, role |-> "community", access_info |-> 0]

(* UPDATE users SET access_info = 1 WHERE wallet_id = ? *)
SetAccessInfo(rows, wallet) ==
    {IF r.wallet_id = wallet THEN [r EXCEPT !.access_info = 1] ELSE r : r \in rows}

(* SELECT COALESCE(SUM(qdoge_amount),0) FROM tradeins *)
RECURSIVE SumQdoge(_)
SumQdoge(rows) ==
    IF rows = {} THEN 0
    ELSE LET r == CHOOSE x \in rows : TRUE
         IN  r.qdoge_amount + SumQdoge(rows \ {r})

(* HTTPException(status_code=400, detail=...) *)
Reject(detail) == [code |-> 400, detail |-> detail]

(* an exception the handler does not catch: 500 Internal Server Error *)
Crash(detail) == [code |-> 500, detail |-> detail]

Found(tx) == [status |-> "returned", tx |-> tx]

AmountDetail(st) ==
    "registration requires exactly " \o ToString(st.registration_amount_qu) \o " QU"

(* mutation: the destination is looked at before the source *)
RegistrationChecks_DestinationFirst(tx, wallet, st) ==
    IF ~tx.money_flew THEN "transaction not finalized (money did not fly)"
    ELSE IF Upper(tx.dest_id) # st.registration_address
    THEN "tx destination does not match registration address"
    ELSE IF Upper(tx.source_id) # wallet THEN "tx source does not match wallet"
    ELSE IF tx.amount # st.registration_amount_qu THEN AmountDetail(st)
    ELSE "ok"

(* the chain of checks of confirm_registration: the detail of the first that fails *)
RegistrationChecks(tx, wallet, st) ==
    IF ~tx.money_flew THEN "transaction not finalized (money did not fly)"
    ELSE IF Upper(tx.source_id) # wallet THEN "tx source does not match wallet"
    ELSE IF Upper(tx.dest_id) # st.registration_address
    THEN "tx destination does not match registration address"
    ELSE IF tx.amount # st.registration_amount_qu THEN AmountDetail(st)
    ELSE "ok"

(* the "with conn_ctx()" block of confirm_registration; leaving it on an exception,
   without commit, discards what it wrote *)
RegistrationDb(db, tabs, wallet, id, tx) ==
    IF "registrations" \notin tabs
    THEN [http |-> Crash("OperationalError: no such table: registrations"), db |-> db]
    ELSE [http |-> [code |-> 200, detail |-> "success"],
          db |-> [db EXCEPT
                    !.users = SetAccessInfo(InsertOrIgnore(@, NewUser(wallet), UsersKey), wallet),
                    !.registrations = InsertOrIgnore(@, [tx_id |-> id, wallet_id |-> wallet,
                                                         amount_qu |-> tx.amount,
                                                         tick |-> tx.tick_number],
                                                     RegistrationsKey)]]

(* confirm_registration from the point where get_tx_details has answered *)
RegistrationOutcome(db, tabs, st, req, found) ==
    LET wallet == NormalizeIdentity(req.walletId)
    IN  IF wallet.status = "raised" THEN [http |-> Crash(wallet.error), db |-> db]
        ELSE IF found.status = "raised" THEN [http |-> Reject(found.error), db |-> db]
        ELSE IF RegistrationChecks(found.tx, wallet.value, st) # "ok"
        THEN [http |-> Reject(RegistrationChecks(found.tx, wallet.value, st)), db |-> db]
        ELSE RegistrationDb(db, tabs, wallet.value, req.txId, found.tx)

(* mutation: the amount being added is left out of the comparison *)
PoolExhausted_IgnoresNewAmount(total_tradein, qdoge_amount, tradein_pool) ==
    total_tradein > tradein_pool

PoolExhausted(total_tradein, qdoge_amount, tradein_pool) ==
    total_tradein + qdoge_amount > tradein_pool

(* the checks of confirm_tradein on the decoded payload *)
PayloadChecks(payload, st) ==
    LET issuer_pk == SubSeq(payload, 1, 32)
        new_owner_pk == SubSeq(payload, 33, 64)
        asset_val == IntFromBytesSigned(SubSeq(payload, 65, 72))
        shares == IntFromBytesSigned(SubSeq(payload, 73, 80))
        exp_issuer_pk == IdentityToPublicKeyBytes(st.qxmr_issuer_id)
        exp_burn_pk == IdentityToPublicKeyBytes(st.burn_address)
    IN  IF exp_issuer_pk.status = "raised" THEN Crash(exp_issuer_pk.error)
        ELSE IF exp_burn_pk.status = "raised" THEN Crash(exp_burn_pk.error)
        ELSE IF issuer_pk # exp_issuer_pk.value THEN Reject("issuer does not match QXMR issuer")
        ELSE IF new_owner_pk # exp_burn_pk.value
        THEN Reject("newOwner does not match burn address")
        ELSE IF asset_val # AssetNameValue(QxmrName).value THEN Reject("assetName is not QXMR")
        ELSE IF shares <= 0 THEN Reject("numberOfShares must be > 0")
        ELSE [code |-> 0, shares |-> shares]

(* the chain of checks of confirm_tradein up to the database block *)
TradeinChecks(tx, wallet, st) ==
    IF ~tx.money_flew THEN Reject("transaction not finalized (money did not fly)")
    ELSE IF Upper(tx.source_id) # wallet THEN Reject("tx source does not match wallet")
    ELSE IF Upper(tx.dest_id) # st.qx_contract_id
    THEN Reject("trade-in must be a QX smart contract transaction")
    ELSE IF tx.input_type # 2
    THEN Reject("trade-in tx must be QX TransferShareOwnershipAndPossession (inputType=2)")
    ELSE IF FromHex(tx.input_hex).status = "raised" THEN Reject("unable to parse tx inputHex")
    ELSE IF Len(FromHex(tx.input_hex).value) < 80 THEN Reject("trade-in payload too short")
    ELSE PayloadChecks(FromHex(tx.input_hex).value, st)

(* the "with conn_ctx()" block of confirm_tradein *)
TradeinDb(db, wallet, id, tx, shares, st) ==
    LET qdoge_amount == shares * st.tradein_ratio_qdoge_per_qxmr
        total_tradein == SumQdoge(db.tradeins)
    IN  IF PoolExhausted(total_tradein, qdoge_amount, st.tradein_pool)
        THEN [http |-> Reject("trade-in pool exhausted"), db |-> db]
        ELSE [http |-> [code |-> 200, detail |-> "success", qxmr_amount |-> shares,
                        qdoge_amount |-> qdoge_amount],
              db |-> [db EXCEPT
                        !.users = InsertOrIgnore(@, NewUser(wallet), UsersKey),
                        !.tradeins = InsertOrIgnore(@, [tx_id |-> id, wallet_id |-> wallet,
                                                        qxmr_amount |-> shares,
                                                        qdoge_amount |-> qdoge_amount,
                                                        tick |-> tx.tick_number],
                                                    TradeinsKey)]]

(* confirm_tradein from the point where get_tx_details has answered *)
TradeinOutcome(db, st, req, found) ==
    LET wallet == NormalizeIdentity(req.walletId)
    IN  IF wallet.status = "raised" THEN [http |-> Crash(wallet.error), db |-> db]
        ELSE IF found.status = "raised" THEN [http |-> Reject(found.error), db |-> db]
        ELSE LET checked == TradeinChecks(found.tx, wallet.value, st)
             IN  IF checked.code # 0 THEN [http |-> checked, db |-> db]
                 ELSE TradeinDb(db, wallet.value, req.txId, found.tx, checked.shares, st)

(* Settings with every choice of power users among the wallets *)
SettingsValues ==
    {[DefaultSettings EXCEPT !.power_users = [w \in P |-> 1]] : P \in SUBSET Wallets}

InitRoles ==
    /\ AllocParked
    /\ RpcParked
    /\ ConfirmParked
    /\ CodecParked
    /\ AirdropParked
    /\ wallet_id \in Wallets
    /\ portal_bal \in -1..MaxPortalBal
    /\ settings \in SettingsValues
    /\ roles = NoResult
    /\ ParseParked

Resolve ==
    /\ roles = NoResult
    /\ roles' = [status |-> "returned", value |-> ResolveRoles(wallet_id, settings, portal_bal)]
    /\ UNCHANGED <<wallet_id, portal_bal, settings, role_field, parsed_roles, listed_roles>>
    /\ UNCHANGED <<allocVars, rpcVars, confirmVars, codecVars, airdropVars>>

NextRoles == Resolve

SpecRoles == InitRoles /\ [][NextRoles]_vars

(***************************************************************************)
(* Specification SpecParse: one stored users.role string, read by the core *)
(* parse_roles and by the _parse_roles of the admin listing.               *)
(***************************************************************************)
RoleVip == <<118, 105, 112>>

(* the pieces a stored role string is made of: the four roles, an unknown role, a role
   written with a space and a capital, and nothing *)
RolePieces == {RoleAdmin, RolePower, RolePortal, RoleCommunity, RoleVip,
               <<32, 80, 111, 119, 101, 114>>, <<>>}

RECURSIVE Join(_)
Join(pieces) ==
    IF Len(pieces) = 0 THEN <<>>
    ELSE IF Len(pieces) = 1 THEN pieces[1]
    ELSE pieces[1] \o <<44>> \o Join(Tail(pieces))

RoleFields == {Join(pieces) : pieces \in UNION {[1..n -> RolePieces] : n \in 0..MaxRoles}}

InitParse ==
    /\ AllocParked
    /\ RpcParked
    /\ ConfirmParked
    /\ CodecParked
    /\ AirdropParked
    /\ wallet_id = <<>>
    /\ portal_bal = 0
    /\ settings = <<>>
    /\ roles = NoResult
    /\ role_field \in RoleFields
    /\ parsed_roles = NoResult
    /\ listed_roles = NoResult

CallParseRoles ==
    /\ parsed_roles = NoResult
    /\ parsed_roles' = Ok(ParseRoles(role_field))
    /\ UNCHANGED <<wallet_id, portal_bal, settings, roles, role_field, listed_roles>>
    /\ UNCHANGED <<allocVars, rpcVars, confirmVars, codecVars, airdropVars>>

CallAdminParseRoles ==
    /\ listed_roles = NoResult
    /\ listed_roles' = Ok(AdminParseRoles(role_field))
    /\ UNCHANGED <<wallet_id, portal_bal, settings, roles, role_field, parsed_roles>>
    /\ UNCHANGED <<allocVars, rpcVars, confirmVars, codecVars, airdropVars>>

NextParse ==
    \/ CallParseRoles
    \/ CallAdminParseRoles

SpecParse == InitParse /\ [][NextParse]_vars

(* C24: for every stored role string the admin listing's _parse_roles returns the role
   sequence the core parse_roles returns; a string containing admin yields the single
   role admin in both. *)
C24_ParsersAgree ==
    (parsed_roles.status = "returned" /\ listed_roles.status = "returned")
        => /\ listed_roles.value = parsed_roles.value
           /\ RoleAdmin \in Range(Seen(Split(role_field)))
                 => /\ parsed_roles.value = <<RoleAdmin>>
                    /\ listed_roles.value = <<RoleAdmin>>

IsAdminWallet(w, st) == w \in Range(st.admin_wallets)

(* C9: for the configured admin identity resolve_roles returns exactly (admin,),
   whatever the portal balance and the power-user set. *)
C9_AdminExclusive ==
    (roles.status = "returned" /\ IsAdminWallet(wallet_id, settings))
        => roles.value = <<RoleAdmin>>

(* C10: for a non-admin wallet the result is non-empty and duplicate-free, contains
   community, contains power iff the wallet is a power user, contains portal iff
   portal_bal > 0, and is ordered power, portal, community. *)
C10_NonAdminRoles ==
    (roles.status = "returned" /\ ~IsAdminWallet(wallet_id, settings))
        => /\ roles.value # <<>>
           /\ \A i, j \in DOMAIN roles.value : i # j => roles.value[i] # roles.value[j]
           /\ RoleCommunity \in Range(roles.value)
           /\ RolePower \in Range(roles.value) <=> wallet_id \in DOMAIN settings.power_users
           /\ RolePortal \in Range(roles.value) <=> portal_bal > 0
           /\ roles.value = SelectSeq(<<RolePower, RolePortal, RoleCommunity>>,
                                      LAMBDA r : r \in Range(roles.value))

(* a power user holding portal tokens gets all three roles *)
C10_Witness ==
    /\ roles.status = "returned"
    /\ ~IsAdminWallet(wallet_id, settings)
    /\ portal_bal > 0
    /\ wallet_id \in DOMAIN settings.power_users
    /\ roles.value = <<RolePower, RolePortal, RoleCommunity>>

(***************************************************************************)
(* The ledger the RPC node reports, and the confirm requests               *)
(***************************************************************************)
HexChar(d) == IF d < 10 THEN 48 + d ELSE 87 + d

ToHex(b) ==
    [i \in 1..(2 * Len(b)) |->
        HexChar(IF i % 2 = 1 THEN b[(i + 1) \div 2] \div 16 ELSE b[i \div 2] % 16)]

RECURSIVE LEBytes(_, _)
LEBytes(n, k) == IF k = 0 THEN <<>> ELSE <<n % 256>> \o LEBytes(n \div 256, k - 1)

(* the 8 bytes of a signed int64, little-endian *)
Int64Bytes(v) ==
    IF v >= 0 THEN LEBytes(v, 8) ELSE [i \in 1..8 |-> 255 - LEBytes(-v - 1, 8)[i]]

(* the public keys of the QXMR issuer and of the burn address *)
QxmrIssuerPk == IdentityToPublicKeyBytes(QxmrIssuerId).value

BurnPk == IdentityToPublicKeyBytes(BurnAddress).value

OtherByte(bytes) == [bytes EXCEPT ![1] = (@ + 1) % 256]

OtherWallet(w) == IF w = WalletA THEN WalletB ELSE WalletA

TradeinFlaws ==
    {"source", "dest", "input_type", "hex", "short", "issuer", "burn", "asset", "shares"}

RegistrationFlaws == {"source", "dest", "amount"}

(* issuer, new owner, asset name, number of shares: the input of QX procedure 2 *)
TradeinPayload(shares, flaws) ==
    LET full == (IF "issuer" \in flaws THEN OtherByte(QxmrIssuerPk) ELSE QxmrIssuerPk)
                \o (IF "burn" \in flaws THEN OtherByte(BurnPk) ELSE BurnPk)
                \o Int64Bytes(AssetNameValue(QxmrName).value
                              + (IF "asset" \in flaws THEN 1 ELSE 0))
                \o Int64Bytes(IF "shares" \in flaws THEN 0 ELSE shares)
    IN  IF "short" \in flaws THEN SubSeq(full, 1, 79) ELSE full

TradeinHex(shares, flaws) ==
    LET hex == ToHex(TradeinPayload(shares, flaws))
    IN  IF "hex" \in flaws THEN SubSeq(hex, 1, Len(hex) - 1) ELSE hex

TradeinTx(id, source, shares, tick_no, flaws) ==
    [txId |-> id,
     sourceId |-> IF "source" \in flaws THEN OtherWallet(source) ELSE source,
     destId |-> IF "dest" \in flaws THEN RegistrationAddress ELSE QxContractId,
     amount |-> 0,
     tickNumber |-> tick_no,
     inputType |-> IF "input_type" \in flaws THEN 1 ELSE 2,
     inputSize |-> Len(TradeinPayload(shares, flaws)),
     inputHex |-> TradeinHex(shares, flaws)]

RegistrationTx(id, source, tick_no, flaws) ==
    [txId |-> id,
     sourceId |-> IF "source" \in flaws THEN OtherWallet(source) ELSE source,
     destId |-> IF "dest" \in flaws THEN QxContractId ELSE RegistrationAddress,
     amount |-> IF "amount" \in flaws THEN RegistrationAmountQu + 1 ELSE RegistrationAmountQu,
     tickNumber |-> tick_no,
     inputType |-> 0,
     inputSize |-> 0,
     inputHex |-> <<>>]

FlawId(prefix, flaws) ==
    prefix \o (IF "source" \in flaws THEN "s" ELSE "") \o (IF "dest" \in flaws THEN "d" ELSE "")
           \o (IF "input_type" \in flaws THEN "t" ELSE "") \o (IF "hex" \in flaws THEN "h" ELSE "")
           \o (IF "short" \in flaws THEN "l" ELSE "") \o (IF "issuer" \in flaws THEN "i" ELSE "")
           \o (IF "burn" \in flaws THEN "b" ELSE "") \o (IF "asset" \in flaws THEN "a" ELSE "")
           \o (IF "shares" \in flaws THEN "n" ELSE "") \o (IF "amount" \in flaws THEN "q" ELSE "")

(* transactions that pass every check; the node reports T1 and R1 in two versions, and
   the source of T2 in lower case *)
ValidTxs ==
    {TradeinTx("T1", WalletA, 2000000, 1, {}),
     TradeinTx("T1", WalletA, 3000000, 2, {}),
     TradeinTx("T2", Lower(WalletA), 3000000, 1, {}),
     TradeinTx("T3", WalletB, 3250000, 2, {}),
     RegistrationTx("R1", WalletA, 1, {}),
     RegistrationTx("R1", WalletA, 2, {}),
     RegistrationTx("R2", WalletB, 1, {})}

(* transactions of WalletA that fail at least one and at most MaxFlaws checks *)
FlawedTxs ==
    {TradeinTx(FlawId("X", F), WalletA, 1000000, 1, F) :
        F \in {G \in SUBSET TradeinFlaws : Cardinality(G) \in 1..MaxFlaws}}
    \cup {RegistrationTx(FlawId("Y", F), WalletA, 1, F) :
            F \in {G \in SUBSET RegistrationFlaws : Cardinality(G) \in 1..MaxFlaws}}
    \cup {TradeinTx("Xneg", WalletA, -1, 1, {})}

(* a transfer of amount_qu to the funding address, which is the registration address *)
FundingTx(id, source, amount_qu, tick_no) ==
    [txId |-> id,
     sourceId |-> source,
     destId |-> RegistrationAddress,
     amount |-> amount_qu,
     tickNumber |-> tick_no,
     inputType |-> 0,
     inputSize |-> 0,
     inputHex |-> <<>>]

(* a transfer made to fund a wallet *)
FundingTransfers == {FundingTx("P1", WalletA, 120, 1)}

Ledger == ValidTxs \cup FlawedTxs \cup FundingTransfers

(* what await rpc.get_tx_details(wallet, tx_id) can come back with: an RpcError, or the
   details of a finalized transaction carrying this txId *)
Lookups(id) ==
    {Raised(ErrNotFound)} \cup {Found(ParseTx(t, TRUE)) : t \in {u \in Ledger : u.txId = id}}

Request(kind, wallet, id) == [kind |-> kind, walletId |-> wallet, txId |-> id]

(* the requests that run concurrently *)
ConcurrentRequests ==
    {Request("tradein", WalletA, "T1"), Request("tradein", WalletA, "T2"),
     Request("tradein", WalletB, "T3"), Request("tradein", WalletB, "T1"),
     Request("registration", WalletA, "R1"), Request("registration", WalletB, "R2"),
     Request("registration", WalletA, "Yq"), Request("registration", WalletA, "T1"),
     Request("tradein", WalletA, "R1")}

(* the requests that are served one at a time *)
CheckRequests ==
    ConcurrentRequests
    \cup {Request(IF t.inputType = 0 THEN "registration" ELSE "tradein", WalletA, t.txId) :
            t \in FlawedTxs}

ConfirmSettings == {DefaultSettings, [DefaultSettings EXCEPT !.qxmr_issuer_id = QxmrIssuerId]}

InitConfirm ==
    /\ AllocParked
    /\ RpcParked
    /\ RolesArgsParked
    /\ CodecParked
    /\ AirdropParked
    /\ settings \in ConfirmSettings
    /\ tables \in {InitDbTables, ProvisionedTables}
    /\ users = {}
    /\ registrations = {}
    /\ tradeins = {}
    /\ awaiting = {}
    /\ response = NoResult
    /\ db_lock = NoResult

Database == [users |-> users, registrations |-> registrations, tradeins |-> tradeins]

(* a request arrives and its handler runs up to await rpc.get_tx_details(...) *)
Call(req, cap) ==
    /\ Cardinality(awaiting) < cap
    /\ req \notin awaiting
    /\ awaiting' = awaiting \cup {req}
    /\ response' = NoResult
    /\ UNCHANGED <<tables, users, registrations, tradeins, db_lock>>
    /\ UNCHANGED <<allocVars, rpcVars, roleVars, codecVars, airdropVars>>

Finish(req, found, out) ==
    /\ awaiting' = awaiting \ {req}
    /\ users' = out.db.users
    /\ registrations' = out.db.registrations
    /\ tradeins' = out.db.tradeins
    /\ response' = [status |-> "completed", req |-> req, seen |-> found, http |-> out.http]
    /\ UNCHANGED <<tables, db_lock>>
    /\ UNCHANGED <<allocVars, rpcVars, roleVars, codecVars, airdropVars>>

(* the rest of confirm_registration, which runs without another await *)
ConfirmRegistration(req) ==
    /\ req \in awaiting
    /\ req.kind = "registration"
    /\ \E found \in Lookups(req.txId) :
        Finish(req, found, RegistrationOutcome(Database, tables, settings, req, found))

(* the rest of confirm_tradein, which runs without another await *)
ConfirmTradein(req) ==
    /\ req \in awaiting
    /\ req.kind = "tradein"
    /\ \E found \in Lookups(req.txId) :
        Finish(req, found, TradeinOutcome(Database, settings, req, found))

NextConfirm ==
    \E req \in ConcurrentRequests :
        \/ Call(req, MaxAwaiting)
        \/ ConfirmRegistration(req)
        \/ ConfirmTradein(req)

SpecConfirm == InitConfirm /\ [][NextConfirm]_vars

NextChecks ==
    \E req \in CheckRequests :
        \/ Call(req, 1)
        \/ ConfirmRegistration(req)
        \/ ConfirmTradein(req)

SpecChecks == InitConfirm /\ [][NextChecks]_vars

(***************************************************************************)
(* Claims about the confirm handlers                                       *)
(***************************************************************************)
(* a step in which the call of a request of this kind completed *)
Completes(kind) ==
    /\ response'.status = "completed"
    /\ awaiting' # awaiting
    /\ response'.req.kind = kind

(* number of the first FALSE in a sequence of booleans, 0 if there is none *)
FirstFalse(holds) ==
    IF \A k \in DOMAIN holds : holds[k] THEN 0
    ELSE CHOOSE k \in DOMAIN holds : ~holds[k] /\ \A j \in 1..(k - 1) : holds[j]

TradeinAmount(tx, st) ==
    IntFromBytesSigned(SubSeq(FromHex(tx.input_hex).value, 73, 80))
        * st.tradein_ratio_qdoge_per_qxmr

C2_Step ==
    /\ SumQdoge(tradeins') <= settings'.tradein_pool
    /\ Completes("tradein") =>
        /\ response'.http.code = 200 =>
            /\ response'.http.qdoge_amount
                    = response'.http.qxmr_amount * settings.tradein_ratio_qdoge_per_qxmr
            /\ SumQdoge(tradeins) + response'.http.qdoge_amount <= settings.tradein_pool
        /\ response'.http = Reject("trade-in pool exhausted") =>
            /\ SumQdoge(tradeins) + TradeinAmount(response'.seen.tx, settings)
                    > settings.tradein_pool
            /\ tradeins' = tradeins
        /\ tradeins' # tradeins => response'.http.code = 200

(* C2: whatever confirm_tradein calls run, also with several of them suspended in their
   lookup at once, the recorded qdoge_amount never sum to more than tradein_pool: a call
   is accepted only if the running total plus shares * ratio stays within the pool,
   and a call answered "pool exhausted" would have gone beyond it and records nothing. *)
C2_TradeinWithinPool == [][C2_Step]_vars

(* the pool is exactly full, a further trade-in was refused, another call is in flight *)
C2_Witness ==
    /\ response.status = "completed"
    /\ response.http = Reject("trade-in pool exhausted")
    /\ SumQdoge(tradeins) = settings.tradein_pool
    /\ awaiting # {}

C3_Step ==
    /\ tradeins \subseteq tradeins'
    /\ registrations \subseteq registrations'
    /\ \A a, b \in tradeins' : a.tx_id = b.tx_id => a = b
    /\ \A a, b \in registrations' : a.tx_id = b.tx_id => a = b

(* C3: a recorded registration or trade-in row is never changed or removed and no second
   row is ever added for its tx_id, however often the claim is submitted again. *)
C3_RecordedOnce == [][C3_Step]_vars

(* a trade-in was confirmed again, this time seen at another tick, and the row kept its tick *)
C3_Witness ==
    /\ response.status = "completed"
    /\ response.req.kind = "tradein"
    /\ response.http.code = 200
    /\ \E row \in tradeins : /\ row.tx_id = response.req.txId
                             /\ row.tick # response.seen.tx.tick_number

RegistrationReasons ==
    <<"transaction not finalized (money did not fly)",
      "tx source does not match wallet",
      "tx destination does not match registration address",
      "registration requires exactly 100 QU">>

(* the four constraints of a registration claim, in the order of the claim *)
RegistrationHolds(wallet, tx, st) ==
    <<tx.money_flew,
      Upper(tx.source_id) = wallet,
      Upper(tx.dest_id) = st.registration_address,
      tx.amount = st.registration_amount_qu>>

C7_Step ==
    /\ (Completes("registration") /\ response'.seen.status = "returned") =>
        LET k == FirstFalse(RegistrationHolds(Upper(Strip(response'.req.walletId)),
                                              response'.seen.tx, settings))
        IN  /\ k # 0 => response'.http = Reject(RegistrationReasons[k])
            /\ k = 0 => response'.http.code # 400
    /\ \A u \in users' :
        (u.access_info = 1 /\ u \notin users) =>
            /\ Completes("registration")
            /\ response'.seen.status = "returned"
            /\ Upper(Strip(response'.req.walletId)) = u.wallet_id
            /\ FirstFalse(RegistrationHolds(u.wallet_id, response'.seen.tx, settings)) = 0

(* C7: confirm_registration rejects with the reason of the first failing constraint among
   money flew, source = wallet, destination = registration address, amount = fee, in that
   order, and a wallet's access_info turns 1 only in a call where all four hold. *)
C7_RegistrationCheckOrder == [][C7_Step]_vars

(* a wrong amount was refused on a right source and destination, after a registration
   that did set access_info *)
C7_Witness ==
    /\ response.status = "completed"
    /\ response.req.kind = "registration"
    /\ response.http = Reject(RegistrationReasons[4])
    /\ \E u \in users : u.access_info = 1

TradeinReasons ==
    <<"transaction not finalized (money did not fly)",
      "tx source does not match wallet",
      "trade-in must be a QX smart contract transaction",
      "trade-in tx must be QX TransferShareOwnershipAndPossession (inputType=2)",
      "trade-in payload too short",
      "issuer does not match QXMR issuer",
      "newOwner does not match burn address",
      "assetName is not QXMR",
      "numberOfShares must be > 0",
      "trade-in pool exhausted">>

PkEquals(bytes, identity) ==
    /\ IdentityToPublicKeyBytes(identity).status = "returned"
    /\ bytes = IdentityToPublicKeyBytes(identity).value

(* the constraints of a trade-in claim, in the order of the claim *)
TradeinHolds(wallet, tx, st, total) ==
    LET payload == FromHex(tx.input_hex).value
        long == Len(payload) >= 80
    IN  <<tx.money_flew,
          Upper(tx.source_id) = wallet,
          Upper(tx.dest_id) = st.qx_contract_id,
          tx.input_type = 2,
          long,
          long /\ PkEquals(SubSeq(payload, 1, 32), st.qxmr_issuer_id),
          long /\ PkEquals(SubSeq(payload, 33, 64), st.burn_address),
          long /\ IntFromBytesSigned(SubSeq(payload, 65, 72)) = AssetNameValue(QxmrName).value,
          long /\ IntFromBytesSigned(SubSeq(payload, 73, 80)) > 0,
          long /\ total + TradeinAmount(tx, st) <= st.tradein_pool>>

C8_Step ==
    (/\ Completes("tradein")
     /\ response'.seen.status = "returned"
     /\ FromHex(response'.seen.tx.input_hex).status = "returned") =>
        LET k == FirstFalse(TradeinHolds(Upper(Strip(response'.req.walletId)),
                                         response'.seen.tx, settings, SumQdoge(tradeins)))
        IN  /\ k # 0 => response'.http = Reject(TradeinReasons[k])
            /\ k = 0 => response'.http.code = 200

(* C8: confirm_tradein rejects with the reason of the first failing constraint among
   money flew, source, destination, input type 2, payload of at least 80 bytes, issuer
   key at [0:32], burn key at [32:64], asset at [64:72] = asset_name_value("QXMR"),
   shares at [72:80] > 0, pool budget, in that order, and accepts when none fails. *)
C8_TradeinCheckOrder == [][C8_Step]_vars

(***************************************************************************)
(* Specification SpecCodec: normalize_identity and                         *)
(* identity_to_public_key_bytes on identities and on misspellings of them  *)
(***************************************************************************)
(* 14-letter chunks whose base-26 values are 0, 1, 2^64 - 1, 2^64 and 26^14 - 1 *)
ChunkZero == [i \in 1..14 |-> 65]

ChunkOne == <<66>> \o [i \in 1..13 |-> 65]

ChunkWordMax == <<80, 81, 77, 85, 89, 83, 88, 77, 90, 67, 88, 72, 76, 72>>

ChunkWordOver == <<81, 81, 77, 85, 89, 83, 88, 77, 90, 67, 88, 72, 76, 72>>

ChunkAllZ == [i \in 1..14 |-> 90]

Chunks == {ChunkZero, ChunkOne, ChunkWordMax, ChunkWordOver, ChunkAllZ}

Checksums == {<<65, 65, 65, 65>>, <<90, 81, 77, 66>>}

(* strings of 60 upper-case letters *)
ShapedIdentities ==
    {a \o b \o c \o d \o t : a \in Chunks, b \in Chunks, c \in Chunks, d \in Chunks,
                              t \in Checksums}

(* n characters of white space, spaces and line feeds *)
Pad(n) == [i \in 1..n |-> IF i % 2 = 1 THEN 32 ELSE 10]

(* the ways a caller may spell the identity v: as it is, in lower case, with one lower-case
   letter, padded with white space, one letter short or long, with a digit, a "[", or a
   space inside *)
Spellings(v) ==
    {v, Lower(v), [v EXCEPT ![1] = v[1] + 32],
     SubSeq(v, 1, 59), v \o <<65>>,
     [v EXCEPT ![60] = 48], [v EXCEPT ![1] = 91], [v EXCEPT ![30] = 32]}
    \cup {Pad(n) \o v \o Pad(m) : n \in 0..MaxPad, m \in 0..MaxPad}
    \cup {Pad(n) \o Lower(v) : n \in 1..MaxPad}

IdentityInputs == UNION {Spellings(v) : v \in ShapedIdentities}

InitCodec ==
    /\ AllocParked
    /\ RpcParked
    /\ RolesParked
    /\ ConfirmParked
    /\ AirdropParked
    /\ id_arg \in IdentityInputs
    /\ normalized = NoResult
    /\ public_key = NoResult

CallNormalizeIdentity ==
    /\ normalized = NoResult
    /\ normalized' = NormalizeIdentity(id_arg)
    /\ UNCHANGED <<id_arg, public_key>>
    /\ UNCHANGED <<allocVars, rpcVars, roleVars, confirmVars, airdropVars>>

CallIdentityToPublicKeyBytes ==
    /\ public_key = NoResult
    /\ public_key' = IdentityToPublicKeyBytes(id_arg)
    /\ UNCHANGED <<id_arg, normalized>>
    /\ UNCHANGED <<allocVars, rpcVars, roleVars, confirmVars, airdropVars>>

NextCodec == CallNormalizeIdentity \/ CallIdentityToPublicKeyBytes

SpecCodec == InitCodec /\ [][NextCodec]_vars

(* exactly 60 upper-case letters A-Z *)
IsIdentityShape(str) == Len(str) = 60 /\ \A i \in DOMAIN str : str[i] \in 65..90

IsLetter(c) == c \in (65..90) \cup (97..122)

WordOf(chunk) == LET n == ChunkValue(chunk) IN n \o [i \in 1..(8 - Len(n)) |-> 0]

(* C19: for every string of 60 upper-case letters identity_to_public_key_bytes returns
   32 bytes, four 8-byte little-endian words holding the base-26 values of the four
   14-letter chunks; no chunk overflows its word. *)
C19_DecodesEveryIdentity ==
    (public_key # NoResult /\ IsIdentityShape(id_arg))
        => /\ public_key.status = "returned"
           /\ Len(public_key.value) = 32
           /\ \A i \in 0..3 :
                 SubSeq(public_key.value, 8 * i + 1, 8 * i + 8)
                     = WordOf(SubSeq(id_arg, 14 * i + 1, 14 * i + 14))

(***************************************************************************)
(* services/storage.py: upsert_res_snapshot and update_airdrop_amount      *)
(* Specification SpecSnapshot: calls of the two on one connection          *)
(***************************************************************************)
(* INSERT INTO res(wallet_id, qubic_bal, qearn_bal, portal_bal, qxmr_bal, updated_at);
   airdrop_amt takes its column default *)
ResRow(wallet, payload, now) ==
    [wallet_id |-> wallet, qubic_bal |-> payload[1], qearn_bal |-> payload[2],
     portal_bal |-> payload[3], qxmr_bal |-> payload[4], airdrop_amt |-> 0,
     updated_at |-> now]

(* stored = (int(existing["qubic_bal"] or 0), ...) *)
Stored(row) == <<row.qubic_bal, row.qearn_bal, row.portal_bal, row.qxmr_bal>>

(* FOREIGN KEY(wallet_id) REFERENCES users(wallet_id), with PRAGMA foreign_keys = ON *)
ForeignKeyHolds(userRows, wallet) == \E u \in userRows : u.wallet_id = wallet

ForeignKeyError == Raised("IntegrityError: FOREIGN KEY constraint failed")

(* mutation: the stored balances never count as equal to the payload *)
SameSnapshot_Never(stored, payload) == FALSE

(* stored == payload *)
SameSnapshot(stored, payload) == stored = payload

(* upsert_res_snapshot: the value returned and the rows of res afterwards *)
UpsertResSnapshot(resRows, userRows, wallet_id_arg, payload, now) ==
    LET wallet == Upper(wallet_id_arg)
        existing == {r \in resRows : r.wallet_id = wallet}
    IN  IF existing = {}
        THEN IF ForeignKeyHolds(userRows, wallet)
             THEN [result |-> Ok(TRUE), res |-> resRows \cup {ResRow(wallet, payload, now)}]
             ELSE [result |-> ForeignKeyError, res |-> resRows]
        ELSE LET row == CHOOSE r \in existing : TRUE
             IN  IF SameSnapshot(Stored(row), payload)
                 THEN [result |-> Ok(FALSE), res |-> resRows]
                 ELSE [result |-> Ok(TRUE),
                       res |-> (resRows \ {row})
                               \cup {[row EXCEPT !.qubic_bal = payload[1],
                                                 !.qearn_bal = payload[2],
                                                 !.portal_bal = payload[3],
                                                 !.qxmr_bal = payload[4],
                                                 !.updated_at = now]}]

(* update_airdrop_amount: INSERT OR IGNORE INTO res(wallet_id), then the UPDATE if the
   amount differs *)
UpdateAirdropAmount(resRows, userRows, wallet_id_arg, amount, now) ==
    LET wallet == Upper(wallet_id_arg)
        existing == {r \in resRows : r.wallet_id = wallet}
        row == IF existing = {} THEN ResRow(wallet, <<0, 0, 0, 0>>, now)
               ELSE CHOOSE r \in existing : TRUE
    IN  IF existing = {} /\ ~ForeignKeyHolds(userRows, wallet)
        THEN [result |-> ForeignKeyError, res |-> resRows]
        ELSE IF row.airdrop_amt = amount
        THEN [result |-> Ok(FALSE), res |-> (resRows \ existing) \cup {row}]
        ELSE [result |-> Ok(TRUE),
              res |-> (resRows \ existing)
                      \cup {[row EXCEPT !.airdrop_amt = amount, !.updated_at = now]}]

(* the four balances of a call: all zero, one of them positive, all positive *)
Payloads ==
    {<<0, 0, 0, 0>>, <<1, 0, 0, 0>>, <<0, 1, 0, 0>>, <<0, 0, 1, 0>>, <<0, 0, 0, 1>>,
     <<1, 1, 1, 1>>}

AirdropAmounts == {0, 1}

(* wallet_id arguments: WalletA in both cases, and WalletB *)
SnapshotWallets == {WalletA, Lower(WalletA), WalletB}

InitSnapshot ==
    /\ AllocParked
    /\ RpcParked
    /\ RolesParked
    /\ CodecParked
    /\ tables = InitDbTables
    /\ users \in {{NewUser(WalletA)}, {NewUser(WalletA), NewUser(WalletB)}}
    /\ registrations = {}
    /\ tradeins = {}
    /\ awaiting = {}
    /\ response = NoResult
    /\ db_lock = NoResult
    /\ res = {}
    /\ fundings = {}
    /\ qearn_snapshot = {}
    /\ portal_snapshot = {}
    /\ power_snapshot = {}
    /\ clock = 0
    /\ upserted = NoResult
    /\ allocs = <<>>
    /\ weight_calls = 0

(* one call of upsert_res_snapshot; time has moved on since the call before *)
CallUpsertResSnapshot(w, payload) ==
    /\ clock < MaxClock
    /\ clock' = clock + 1
    /\ LET out == UpsertResSnapshot(res, users, w, payload, clock + 1)
       IN  /\ res' = out.res
           /\ upserted' = [status |-> "completed", at |-> clock + 1, wallet_id |-> w,
                           payload |-> payload, result |-> out.result]
    /\ UNCHANGED <<fundings, qearn_snapshot, portal_snapshot, power_snapshot, allocs,
                   weight_calls>>
    /\ UNCHANGED <<allocVars, rpcVars, roleVars, confirmVars, codecVars>>

(* one call of update_airdrop_amount *)
CallUpdateAirdropAmount(w, amount) ==
    /\ clock < MaxClock
    /\ clock' = clock + 1
    /\ res' = UpdateAirdropAmount(res, users, w, amount, clock + 1).res
    /\ UNCHANGED <<fundings, qearn_snapshot, portal_snapshot, power_snapshot, upserted,
                   allocs, weight_calls>>
    /\ UNCHANGED <<allocVars, rpcVars, roleVars, confirmVars, codecVars>>

NextSnapshot ==
    \E w \in SnapshotWallets :
        \/ \E payload \in Payloads : CallUpsertResSnapshot(w, payload)
        \/ \E amount \in AirdropAmounts : CallUpdateAirdropAmount(w, amount)

SpecSnapshot == InitSnapshot /\ [][NextSnapshot]_vars

(* C16: an upsert_res_snapshot call that repeats the call before it (same wallet, same four
   balances) returns False and leaves res as it was; any call that returns reports a
   change exactly when it inserted the row or one of the four stored balances differed
   from its payload, and a call reporting no change writes nothing. *)
C16_Step ==
    upserted' # upserted
        => LET call == upserted'
               wallet == Upper(call.wallet_id)
               before == {r \in res : r.wallet_id = wallet}
               differs == \E r \in before : <<r.qubic_bal, r.qearn_bal, r.portal_bal,
                                               r.qxmr_bal>> # call.payload
               repeats == /\ upserted # NoResult
                          /\ upserted.result.status = "returned"
                          /\ Upper(upserted.wallet_id) = wallet
                          /\ upserted.payload = call.payload
           IN  /\ repeats => (call.result = Ok(FALSE) /\ res' = res)
               /\ call.result.status = "returned"
                     => (call.result.value <=> (before = {} \/ differs))
               /\ call.result = Ok(FALSE) => res' = res

C16_UpsertIdempotent == [][C16_Step]_vars

(* the second of two calls with the same positive balances reported no change, and the row
   still carries the time of the first write *)
C16_Witness ==
    /\ upserted # NoResult
    /\ upserted.result = Ok(FALSE)
    /\ upserted.payload = <<1, 1, 1, 1>>
    /\ \E r \in res : /\ r.wallet_id = Upper(upserted.wallet_id)
                       /\ Stored(r) = upserted.payload
                       /\ r.updated_at < upserted.at

(***************************************************************************)
(* services/storage.py: ensure_user, set_user_role.  In this part the role *)
(* column holds its string as code points.                                 *)
(***************************************************************************)
(* settings.<name>: a frozen dataclass raises AttributeError for a field it does not have *)
Attr(st, name) ==
    IF name \in DOMAIN st THEN Ok(st[name])
    ELSE Raised("AttributeError: 'Settings' object has no attribute '" \o name \o "'")

(* UPDATE users SET role = ? [, access_info = ?] WHERE wallet_id = ? *)
SetRole(userRows, wallet, role, access) ==
    {IF r.wallet_id = wallet THEN [r EXCEPT !.role = role, !.access_info = access] ELSE r :
        r \in userRows}

(* ensure_user: the rows of users afterwards and what the call returned or raised *)
EnsureUser(userRows, wallet_id_arg, st) ==
    LET wallet == Upper(wallet_id_arg)
        found == {r \in userRows : r.wallet_id = wallet}
        row == CHOOSE r \in found : TRUE
        admin_wallet_id == Attr(st, "admin_wallet_id")
        is_admin == wallet = admin_wallet_id.value
    IN  IF admin_wallet_id.status = "raised"
        THEN [users |-> userRows, result |-> admin_wallet_id]
        ELSE IF found = {}
        THEN [users |-> userRows \cup {[wallet_id |-> wallet,
                                       role |-> IF is_admin THEN RoleAdmin ELSE RoleCommunity,
                                       access_info |-> IF is_admin THEN 1 ELSE 0]},
              result |-> Ok(TRUE)]
        ELSE IF is_admin /\ (Lower(row.role) # RoleAdmin \/ row.access_info # 1)
        THEN [users |-> SetRole(userRows, wallet, RoleAdmin, 1), result |-> Ok(TRUE)]
        ELSE [users |-> userRows, result |-> Ok(FALSE)]

(* current.lower() == "admin" and role_csv != "admin" *)
KeepsAdmin(current, role_csv) == Lower(current) = RoleAdmin /\ role_csv # RoleAdmin

(* set_user_role *)
SetUserRole(userRows, wallet_id_arg, role_csv) ==
    LET wallet == Upper(wallet_id_arg)
        existing == {r \in userRows : r.wallet_id = wallet}
        current == (CHOOSE r \in existing : TRUE).role
    IN  IF existing = {}
        THEN [users |-> userRows \cup {[wallet_id |-> wallet, role |-> role_csv,
                                       access_info |-> 0]},
              result |-> Ok(TRUE)]
        ELSE IF current = role_csv THEN [users |-> userRows, result |-> Ok(FALSE)]
        ELSE IF KeepsAdmin(current, role_csv) THEN [users |-> userRows, result |-> Ok(FALSE)]
        ELSE [users |-> SetRole(userRows, wallet, role_csv,
                                (CHOOSE r \in existing : TRUE).access_info),
              result |-> Ok(TRUE)]

(***************************************************************************)
(* Specification SpecUsers: ensure_user and set_user_role calls, one after *)
(* the other on one connection, under the settings get_settings() builds.  *)
(***************************************************************************)
UserRow(w, role, access) == [wallet_id |-> w, role |-> role, access_info |-> access]

(* users before the calls: empty; the admin wallet stored as admin, in either case; the
   admin wallet stored as a community user next to a power user *)
UsersBefore ==
    {{},
     {UserRow(AdminWallet, RoleAdmin, 1)},
     {UserRow(AdminWallet, Upper(RoleAdmin), 1), UserRow(WalletA, RoleAdmin, 0)},
     {UserRow(AdminWallet, RoleCommunity, 0), UserRow(WalletA, RolePower, 1)}}

UserWallets == {AdminWallet, Lower(AdminWallet), WalletA}

RoleCsvs == {RoleAdmin, Upper(RoleAdmin), RolePower, RoleCommunity,
             RolePortal \o <<44>> \o RolePower}

InitUsers ==
    /\ AllocParked
    /\ RpcParked
    /\ RolesArgsParked
    /\ CodecParked
    /\ settings = DefaultSettings
    /\ tables = InitDbTables
    /\ users \in UsersBefore
    /\ registrations = {}
    /\ tradeins = {}
    /\ awaiting = {}
    /\ response = NoResult
    /\ db_lock = NoResult
    /\ res = {}
    /\ fundings = {}
    /\ qearn_snapshot = {}
    /\ portal_snapshot = {}
    /\ power_snapshot = {}
    /\ clock = 0
    /\ upserted = NoResult
    /\ allocs = <<>>
    /\ weight_calls = 0

(* a call ends: the rows it left and what it gave back *)
UsersCall(name, w, out) ==
    /\ clock < MaxClock
    /\ clock' = clock + 1
    /\ users' = out.users
    /\ response' = [status |-> "completed", call |-> name, wallet_id |-> w,
                    result |-> out.result]
    /\ UNCHANGED <<tables, registrations, tradeins, awaiting, db_lock>>
    /\ UNCHANGED <<res, fundings, qearn_snapshot, portal_snapshot, power_snapshot, upserted,
                   allocs, weight_calls>>
    /\ UNCHANGED <<allocVars, rpcVars, roleVars, codecVars>>

CallEnsureUser(w) == UsersCall("ensure_user", w, EnsureUser(users, w, settings))

CallSetUserRole(w, role_csv) ==
    UsersCall("set_user_role", w, SetUserRole(users, w, role_csv))

NextUsers ==
    \E w \in UserWallets :
        \/ CallEnsureUser(w)
        \/ \E role_csv \in RoleCsvs : CallSetUserRole(w, role_csv)

SpecUsers == InitUsers /\ [][NextUsers]_vars

(* C26: no call changes a users row whose role is admin to another role, and after
   ensure_user on a configured admin wallet that wallet's row has role admin and
   access_info 1. *)
C26_Step ==
    /\ \A r \in users :
          r.role = RoleAdmin
              => \E q \in users' : q.wallet_id = r.wallet_id /\ q.role = RoleAdmin
    /\ (response'.status = "completed" /\ response'.call = "ensure_user"
            /\ IsAdminWallet(Upper(response'.wallet_id), settings))
          => \E q \in users' :
                /\ q.wallet_id = Upper(response'.wallet_id)
                /\ q.role = RoleAdmin
                /\ q.access_info = 1

C26_AdminsStayAdmin == [][C26_Step]_vars

(***************************************************************************)
(* services/airdrop.py: the weights and compute_allocations                *)
(***************************************************************************)
PROB_POWER_TENTHS == 7

PROB_PORTAL_TENTHS == 4

PROB_COMMUNITY_TENTHS == 0

(* _user_weight_scaled: the weight times 100 *)
UserWeightScaled(funded_qu, qearn, role_assets, prob_role_tenths, funding_cap_qu) ==
    LET funded_capped == Min2(Max2(0, funded_qu), Max2(0, funding_cap_qu))
        qearn_i == Max2(0, qearn)
        role_assets_i == Max2(0, role_assets)
        p == Max2(0, Min2(10, prob_role_tenths))
    IN  70 * funded_capped + 3 * ((10 - p) * qearn_i + p * role_assets_i)

(* the tables the three weight queries read, besides users *)
AirdropTableNames == {"fundings", "qearn_snapshot", "portal_snapshot", "power_snapshot"}

(* a database file that holds every table the handlers and the weight queries use *)
AirdropTables == ProvisionedTables \cup AirdropTableNames

(* COALESCE((SELECT SUM(amount_credited) FROM fundings f WHERE f.wallet_id = ...), 0) *)
RECURSIVE SumCredited(_)
SumCredited(rows) ==
    IF rows = {} THEN 0
    ELSE LET r == CHOOSE x \in rows : TRUE
         IN  r.amount_credited + SumCredited(rows \ {r})

Funded(db, w) == SumCredited({f \in db.fundings : f.wallet_id = w})

(* COALESCE(x.<column>, 0) over LEFT JOIN <snapshot> x ON x.wallet_id = ... *)
Joined(rows, w, column) ==
    IF \E r \in rows : r.wallet_id = w
    THEN (CHOOSE r \in rows : r.wallet_id = w)[column]
    ELSE 0

(* SELECT wallet_id FROM users WHERE access_info = 1 *)
Registered(db) == {u.wallet_id : u \in {x \in db.users : x.access_info = 1}}

(* the dict "weights[str(wallet_id).upper()] = weight if weight > 0" built over the rows
   of the query; the rows are taken in wallet order, the order SQLite returns them in
   being left open by the query *)
WeightsDict(row_weights) ==
    LET wallets == DOMAIN row_weights
        keys == SortStrings({Upper(w) : w \in {x \in wallets : row_weights[x] > 0}})
    IN  [i \in DOMAIN keys |->
            <<keys[i],
              row_weights[CHOOSE w \in wallets : row_weights[w] > 0 /\ Upper(w) = keys[i]]>>]

GetWeightsCommunity(db, st) ==
    LET weight(w) == UserWeightScaled(Funded(db, w), Joined(db.qearn_snapshot, w, "qearn_amount"),
                                      0, PROB_COMMUNITY_TENTHS, st.funding_cap_qu)
    IN  WeightsDict([w \in Registered(db) |-> weight(w)])

GetWeightsPortal(db, st) ==
    LET weight(w) == UserWeightScaled(Funded(db, w), Joined(db.qearn_snapshot, w, "qearn_amount"),
                                      Joined(db.portal_snapshot, w, "portal_amount"),
                                      PROB_PORTAL_TENTHS, st.funding_cap_qu)
        wallets == Registered(db) \cup {r.wallet_id : r \in db.portal_snapshot}
    IN  WeightsDict([w \in wallets |-> weight(w)])

GetWeightsPower(db, st) ==
    LET weight(w) == UserWeightScaled(Funded(db, w), Joined(db.qearn_snapshot, w, "qearn_amount"),
                                      Joined(db.power_snapshot, w, "qxmr_amount"),
                                      PROB_POWER_TENTHS, st.funding_cap_qu)
        wallets == Registered(db) \cup {r.wallet_id : r \in db.power_snapshot}
    IN  WeightsDict([w \in wallets |-> weight(w)])

(* Settings.community_pool and the like: int(total_supply_qdoge * pct), the percentage
   being the double nearest to thousandths / 1000 *)
PoolOf(st, thousandths) ==
    FloatTrunc(FloatMulInt(st.total_supply_qdoge, FloatDiv(thousandths, 1000)))

CommunityPool(st) == PoolOf(st, st.community_pct)

PortalPool(st) == PoolOf(st, st.portal_pct)

PowerPool(st) == PoolOf(st, st.power_pct)

(* compute_allocations: the three maps, or the error of the first query when the tables
   are missing; "weights" keeps the dicts the call built *)
ComputeAllocations(db, tabs, st) ==
    IF ~(AirdropTableNames \subseteq tabs)
    THEN Raised("OperationalError: no such table: qearn_snapshot")
    ELSE LET community_weights == GetWeightsCommunity(db, st)
             portal_weights == GetWeightsPortal(db, st)
             power_weights == GetWeightsPower(db, st)
         IN  [status |-> "returned",
              community |-> LargestRemainderAllocation(CommunityPool(st), community_weights),
              portal |-> LargestRemainderAllocation(PortalPool(st), portal_weights),
              power |-> LargestRemainderAllocation(PowerPool(st), power_weights),
              weights |-> [community |-> community_weights, portal |-> portal_weights,
                           power |-> power_weights]]

(***************************************************************************)
(* The writers of the tables the weights read: api/public.py               *)
(* confirm_funding (its database block) and services/snapshots.py          *)
(* sync_power_snapshot                                                     *)
(***************************************************************************)
(* INSERT ... ON CONFLICT(wallet_id) DO UPDATE SET ... *)
Upsert(rows, row) == {r \in rows : r.wallet_id # row.wallet_id} \cup {row}

FundingsKey == "tx_id"

(* mutation: what the wallet was credited before is not subtracted *)
CapRemaining_IgnoresPrevious(db, st, wallet) == Max2(0, st.funding_cap_qu)

(* remaining = max(0, settings.funding_cap_qu - prev), prev the wallet's credited sum *)
CapRemaining(db, st, wallet) == Max2(0, st.funding_cap_qu - Funded(db, wallet))

(* mutation: the users row written before the rejection stays *)
FundingDb_KeepsUserRow(db, st, wallet, id, amount_sent, assets) ==
    LET known == InsertOrIgnore(db.users, NewUser(wallet), UsersKey)
        remaining == CapRemaining(db, st, wallet)
        credited == Min2(amount_sent, remaining)
    IN  IF ~\E u \in known : u.wallet_id = wallet /\ u.access_info = 1
        THEN [db EXCEPT !.users = known]
        ELSE [db EXCEPT
                !.users = known,
                !.fundings = InsertOrIgnore(@, [tx_id |-> id, wallet_id |-> wallet,
                                                amount_sent |-> amount_sent,
                                                amount_credited |-> credited],
                                            FundingsKey),
                !.qearn_snapshot =
                    IF assets = <<>> THEN @
                    ELSE Upsert(@, [wallet_id |-> wallet, qearn_amount |-> assets[1]]),
                !.portal_snapshot =
                    IF assets = <<>> THEN @
                    ELSE Upsert(@, [wallet_id |-> wallet, portal_amount |-> assets[2]])]

(* the "with conn_ctx()" block of confirm_funding; assets is <<qearn, portal>> as the two
   fetches returned them, or <<>> when a fetch raised; an unregistered wallet makes the
   block raise before its commit, which discards the users row it wrote *)
FundingDb(db, st, wallet, id, amount_sent, assets) ==
    LET known == InsertOrIgnore(db.users, NewUser(wallet), UsersKey)
        remaining == CapRemaining(db, st, wallet)
        credited == Min2(amount_sent, remaining)
    IN  IF ~\E u \in known : u.wallet_id = wallet /\ u.access_info = 1
        THEN db
        ELSE [db EXCEPT
                !.users = known,
                !.fundings = InsertOrIgnore(@, [tx_id |-> id, wallet_id |-> wallet,
                                                amount_sent |-> amount_sent,
                                                amount_credited |-> credited],
                                            FundingsKey),
                !.qearn_snapshot =
                    IF assets = <<>> THEN @
                    ELSE Upsert(@, [wallet_id |-> wallet, qearn_amount |-> assets[1]]),
                !.portal_snapshot =
                    IF assets = <<>> THEN @
                    ELSE Upsert(@, [wallet_id |-> wallet, portal_amount |-> assets[2]])]

(* sync_power_snapshot: the rows of power_snapshot afterwards *)
SyncPowerSnapshot(rows, power_users, mode) ==
    LET listed == {[wallet_id |-> w, qxmr_amount |-> power_users[w]] : w \in DOMAIN power_users}
    IN  IF power_users = <<>> THEN rows
        ELSE IF \E w \in DOMAIN power_users : power_users[w] <= 0 THEN rows
        ELSE IF mode = "replace" THEN listed
        ELSE {r \in rows : r.wallet_id \notin DOMAIN power_users} \cup listed

(***************************************************************************)
(* Specification SpecAirdrop: compute_allocations between the writes       *)
(***************************************************************************)
(* a configuration with TOTAL_SUPPLY_QDOGE=1000 and FUNDING_CAP_QU=2; the percentages are
   the defaults, in thousandths *)
AirdropSettings ==
    [total_supply_qdoge |-> 1000,
     community_pct |-> 75,
     portal_pct |-> 10,
     power_pct |-> 40,
     funding_cap_qu |-> 2,
     admin_wallets |-> <<AdminWallet>>,
     power_users |-> [w \in {WalletB} |-> 1],
     power_snapshot_sync_mode |-> "replace"]

(* the rows a confirmed registration of the wallet leaves behind *)
RegisteredUser(w) == [NewUser(w) EXCEPT !.access_info = 1]

RegistrationRow(w) ==
    [tx_id |-> IF w = WalletA THEN "R1" ELSE IF w = WalletB THEN "R2" ELSE "R0",
     wallet_id |-> w, amount_qu |-> RegistrationAmountQu, tick |-> 1]

RegisteredSets == {{WalletA}, {AdminWallet, WalletA}, {AdminWallet, WalletA, WalletB}}

(* the funding transactions: one of the admin wallet, two of WalletA, one of WalletB *)
FundingTxs ==
    {<<AdminWallet, "F0">>, <<WalletA, "F1">>, <<WalletA, "F2">>, <<WalletB, "F3">>}

AmountsSent == {1, 3}

(* QEARN and PORTAL units as fetched, <<>> for a failed fetch *)
AssetsFetched == {<<>>, <<1, 0>>, <<0, 2>>}

AirdropDb ==
    [users |-> users, fundings |-> fundings, qearn_snapshot |-> qearn_snapshot,
     portal_snapshot |-> portal_snapshot, power_snapshot |-> power_snapshot]

InitAirdrop ==
    /\ AllocParked
    /\ RpcParked
    /\ RolesArgsParked
    /\ CodecParked
    /\ settings = AirdropSettings
    /\ tables \in {InitDbTables, AirdropTables}
    /\ \E W \in RegisteredSets :
          IF "registrations" \in tables
          THEN /\ users = {RegisteredUser(w) : w \in W}
               /\ registrations = {RegistrationRow(w) : w \in W}
          ELSE /\ users = {NewUser(w) : w \in W}
               /\ registrations = {}
    /\ tradeins = {}
    /\ awaiting = {}
    /\ response = NoResult
    /\ db_lock = NoResult
    /\ res = {}
    /\ fundings = {}
    /\ qearn_snapshot = {}
    /\ portal_snapshot = {}
    /\ power_snapshot = {}
    /\ clock = 0
    /\ upserted = NoResult
    /\ allocs = <<>>
    /\ weight_calls = 0

(* confirm_funding reaches its database block and commits *)
ConfirmFunding(tx, amount_sent, assets) ==
    /\ clock < MaxWrites
    /\ AirdropTableNames \subseteq tables
    /\ LET db == FundingDb(AirdropDb, settings, tx[1], tx[2], amount_sent, assets)
       IN  /\ db # AirdropDb
           /\ users' = db.users
           /\ fundings' = db.fundings
           /\ qearn_snapshot' = db.qearn_snapshot
           /\ portal_snapshot' = db.portal_snapshot
    /\ clock' = clock + 1
    /\ UNCHANGED <<tables, registrations, tradeins, awaiting, response, db_lock>>
    /\ UNCHANGED <<res, power_snapshot, upserted, allocs, weight_calls>>
    /\ UNCHANGED <<allocVars, rpcVars, roleVars, codecVars>>

(* create_app synchronizes power_snapshot from settings.power_users *)
SyncPower ==
    /\ clock < MaxWrites
    /\ "power_snapshot" \in tables
    /\ power_snapshot' = SyncPowerSnapshot(power_snapshot, settings.power_users,
                                           settings.power_snapshot_sync_mode)
    /\ power_snapshot' # power_snapshot
    /\ clock' = clock + 1
    /\ UNCHANGED <<tables, users, registrations, tradeins, awaiting, response, db_lock>>
    /\ UNCHANGED <<res, fundings, qearn_snapshot, portal_snapshot, upserted, allocs,
                   weight_calls>>
    /\ UNCHANGED <<allocVars, rpcVars, roleVars, codecVars>>

(* one call of compute_allocations; every call runs the three get_weights_* queries *)
CallComputeAllocations ==
    /\ Len(allocs) < MaxComputes
    /\ allocs' = Append(allocs, [at |-> clock, calls |-> weight_calls + 3,
                                 portal_rows |-> portal_snapshot,
                                 out |-> ComputeAllocations(AirdropDb, tables, settings)])
    /\ weight_calls' = weight_calls + 3
    /\ UNCHANGED <<res, fundings, qearn_snapshot, portal_snapshot, power_snapshot, clock,
                   upserted>>
    /\ UNCHANGED <<allocVars, rpcVars, roleVars, confirmVars, codecVars>>

NextAirdrop ==
    \/ \E tx \in FundingTxs : \E amount_sent \in AmountsSent : \E assets \in AssetsFetched :
          ConfirmFunding(tx, amount_sent, assets)
    \/ SyncPower
    \/ CallComputeAllocations

SpecAirdrop == InitAirdrop /\ [][NextAirdrop]_vars

(***************************************************************************)
(* Claims about compute_allocations                                        *)
(***************************************************************************)
(* the amount a returned map gives the wallet, 0 for a wallet it does not list *)
AmountIn(map, w) == IF w \in DOMAIN map THEN map[w] ELSE 0

(* C11: in every returned result of compute_allocations the admin wallet has no positive
   amount in the community, portal or power map. *)
C11_AdminReceivesNothing ==
    \A i \in DOMAIN allocs :
        allocs[i].out.status = "returned"
            => \A k \in DOMAIN settings.admin_wallets :
                  /\ AmountIn(allocs[i].out.community, settings.admin_wallets[k]) = 0
                  /\ AmountIn(allocs[i].out.portal, settings.admin_wallets[k]) = 0
                  /\ AmountIn(allocs[i].out.power, settings.admin_wallets[k]) = 0

(* the weight the statement gives a wallet, its funded total standing for qubic_bal and
   funding_cap_qu for qubic_cap *)
StatedCommunityWeight(db, st, w) ==
    Min2(Funded(db, w), st.funding_cap_qu)
    + Max2(0, Joined(db.qearn_snapshot, w, "qearn_amount"))

(* C12: the community weights dict of a call holds exactly the registered wallets whose
   weight min(qubic_bal, qubic_cap) + max(0, qearn_bal) is > 0, each with that weight. *)
C12_CommunityWeight ==
    \A i \in DOMAIN allocs :
        (allocs[i].out.status = "returned" /\ allocs[i].at = clock)
            => LET ws == allocs[i].out.weights.community
               IN  /\ Keys(ws) = {w \in Registered(AirdropDb) :
                                     StatedCommunityWeight(AirdropDb, settings, w) > 0}
                   /\ \A e \in DOMAIN ws :
                         ws[e][2] = StatedCommunityWeight(AirdropDb, settings, ws[e][1])

(* C13: a wallet's portal amount is a function of its own portal balance alone: a wallet
   without portal balance gets nothing from the portal pool, and two calls that saw the
   same portal balance for a wallet give it the same portal amount, whatever the other
   wallets hold. *)
C13_PortalOwnBalanceOnly ==
    \A i \in DOMAIN allocs : \A j \in DOMAIN allocs : \A w \in Wallets :
        (allocs[i].out.status = "returned" /\ allocs[j].out.status = "returned")
            => /\ Joined(allocs[i].portal_rows, w, "portal_amount") = 0
                     => AmountIn(allocs[i].out.portal, w) = 0
               /\ Joined(allocs[i].portal_rows, w, "portal_amount")
                        = Joined(allocs[j].portal_rows, w, "portal_amount")
                     => AmountIn(allocs[i].out.portal, w) = AmountIn(allocs[j].out.portal, w)

(* C17: two consecutive calls with no write between them return the same three maps, and
   the second runs no get_weights_* query. *)
C17_SecondCallFromCache ==
    \A i \in DOMAIN allocs :
        (i + 1 \in DOMAIN allocs /\ allocs[i].at = allocs[i + 1].at)
            => /\ allocs[i + 1].out = allocs[i].out
               /\ allocs[i + 1].calls = allocs[i].calls

(***************************************************************************)
(* api/public.py: confirm_funding, and the three confirm handlers together *)
(***************************************************************************)
(* what the except branch around rpc.get_balance leaves in current_balance *)
BalanceUnknown == 0 - 1

ReserveDetail(st) == "wallet must keep at least " \o ToString(st.reserve_balance_qu) \o " QU"

MinBalanceDetail(st) ==
    "wallet must maintain at least " \o ToString(st.min_wallet_balance_qu) \o " QU"

(* the chain of checks of confirm_funding before its database block: the detail of the
   first that fails *)
FundingChecks(tx, wallet, st, current_balance) ==
    IF ~tx.money_flew THEN "transaction not finalized (money did not fly)"
    ELSE IF Upper(tx.source_id) # wallet THEN "tx source does not match wallet"
    ELSE IF Upper(tx.dest_id) # st.funding_address
    THEN "tx destination does not match funding address"
    ELSE IF tx.amount <= 0 THEN "funding amount must be > 0"
    ELSE IF current_balance # BalanceUnknown /\ current_balance < st.reserve_balance_qu
    THEN ReserveDetail(st)
    ELSE IF current_balance # BalanceUnknown /\ current_balance < st.min_wallet_balance_qu
    THEN MinBalanceDetail(st)
    ELSE "ok"

(* the database block of confirm_funding and the dict the handler returns after it; the
   response is computed from remaining and credited whether or not the INSERT OR IGNORE
   into fundings wrote a row *)
FundingBlock(db, tabs, st, wallet, id, tx, assets) ==
    LET known == InsertOrIgnore(db.users, NewUser(wallet), UsersKey)
        remaining == CapRemaining(db, st, wallet)
        credited == Min2(tx.amount, remaining)
    IN  IF ~\E u \in known : u.wallet_id = wallet /\ u.access_info = 1
        THEN [http |-> Reject("wallet not registered for community drop"),
              db |-> FundingDb(db, st, wallet, id, tx.amount, assets)]
        ELSE IF "fundings" \notin tabs
        THEN [http |-> Crash("OperationalError: no such table: fundings"), db |-> db]
        ELSE [http |-> [code |-> 200, detail |-> "success", amount_sent |-> tx.amount,
                        amount_credited |-> credited,
                        cap_remaining |-> remaining - credited],
              db |-> FundingDb(db, st, wallet, id, tx.amount, assets)]

(* confirm_funding from the point where get_tx_details and get_balance have answered *)
FundingOutcome(db, tabs, st, req, found, current_balance, assets) ==
    LET wallet == NormalizeIdentity(req.walletId)
    IN  IF wallet.status = "raised" THEN [http |-> Crash(wallet.error), db |-> db]
        ELSE IF found.status = "raised" THEN [http |-> Reject(found.error), db |-> db]
        ELSE IF FundingChecks(found.tx, wallet.value, st, current_balance) # "ok"
        THEN [http |-> Reject(FundingChecks(found.tx, wallet.value, st, current_balance)),
              db |-> db]
        ELSE FundingBlock(db, tabs, st, wallet.value, req.txId, found.tx, assets)

(***************************************************************************)
(* Specification SpecFunding: confirm_registration, confirm_funding and    *)
(* confirm_tradein calls over one database file                            *)
(***************************************************************************)
(* the defaults with FUNDING_CAP_QU=150 and with the issuer of the payloads as
   qxmr_issuer_id; FUNDING_ADDRESS is unset, so the funding address is the registration
   address *)
FundingSettings ==
    [admin_wallets |-> <<AdminWallet>>,
     power_users |-> <<>>,
     registration_address |-> RegistrationAddress,
     registration_amount_qu |-> RegistrationAmountQu,
     funding_address |-> Upper(RegistrationAddress),
     funding_cap_qu |-> 150,
     reserve_balance_qu |-> 100000000,
     min_wallet_balance_qu |-> 100000000,
     burn_address |-> BurnAddress,
     qx_contract_id |-> QxContractId,
     qxmr_issuer_id |-> QxmrIssuerId,
     tradein_ratio_qdoge_per_qxmr |-> TradeinRatio,
     tradein_pool |-> TradeinPool]

(* what rpc.get_balance can leave in current_balance: unknown after a failure, a balance
   below the reserve, a balance at the reserve *)
BalancesFetched == {BalanceUnknown, 99999999, 100000000}

FundingRequests ==
    {Request("registration", WalletA, "R1"),
     Request("funding", WalletA, "R1"), Request("funding", WalletA, "P1"),
     Request("funding", WalletB, "P1"),
     Request("tradein", WalletA, "T2"), Request("tradein", WalletB, "T3")}

(* QEARN and PORTAL units as the two fetches of confirm_funding returned them, <<>> when
   one of them raised *)
FundingFetches == {<<>>, <<1, 2>>}

FundingDatabase ==
    [users |-> users, registrations |-> registrations, tradeins |-> tradeins,
     fundings |-> fundings, qearn_snapshot |-> qearn_snapshot,
     portal_snapshot |-> portal_snapshot]

InitFunding ==
    /\ AllocParked
    /\ RpcParked
    /\ RolesArgsParked
    /\ CodecParked
    /\ settings = FundingSettings
    /\ tables \in {InitDbTables, AirdropTables}
    /\ users = {}
    /\ registrations = {}
    /\ tradeins = {}
    /\ awaiting = {}
    /\ response = NoResult
    /\ db_lock = NoResult
    /\ res = {}
    /\ fundings = {}
    /\ qearn_snapshot = {}
    /\ portal_snapshot = {}
    /\ power_snapshot = {}
    /\ clock = 0
    /\ upserted = NoResult
    /\ allocs = <<>>
    /\ weight_calls = 0

(* the responses a handler gives from inside its "with conn_ctx()" block *)
InDbBlock(http) ==
    \/ http.code = 200
    \/ http.detail \in {"trade-in pool exhausted", "wallet not registered for community drop",
                        "OperationalError: no such table: registrations",
                        "OperationalError: no such table: fundings"}

(* get_conn: the first statement of every block is an INSERT, which needs the write lock
   of the file; while another connection holds it the statement waits on the one event
   loop the holder needs to go on, and raises when its timeout ends *)
Locked(out) ==
    IF db_lock # NoResult /\ InDbBlock(out.http)
    THEN [http |-> Crash("OperationalError: database is locked"), db |-> FundingDatabase]
    ELSE out

(* the handler leaves: its connection is closed and its response goes out *)
Respond(req, found, out) ==
    /\ awaiting' = awaiting \ {req}
    /\ users' = out.db.users
    /\ registrations' = out.db.registrations
    /\ tradeins' = out.db.tradeins
    /\ fundings' = out.db.fundings
    /\ qearn_snapshot' = out.db.qearn_snapshot
    /\ portal_snapshot' = out.db.portal_snapshot
    /\ response' = [status |-> "completed", req |-> req, seen |-> found, http |-> out.http]
    /\ UNCHANGED <<tables, res, power_snapshot, clock, upserted, allocs, weight_calls>>
    /\ UNCHANGED <<allocVars, rpcVars, roleVars, codecVars>>

(* the rest of confirm_registration, which runs without another await *)
RegistrationRuns(req, found) ==
    /\ req \in awaiting
    /\ req.kind = "registration"
    /\ \E out \in {Locked(RegistrationOutcome(FundingDatabase, tables, settings, req,
                                              found))} :
        /\ Respond(req, found, out)
        /\ UNCHANGED db_lock

(* the rest of confirm_tradein, which runs without another await *)
TradeinRuns(req, found) ==
    /\ req \in awaiting
    /\ req.kind = "tradein"
    /\ \E out \in {Locked(TradeinOutcome(FundingDatabase, settings, req, found))} :
        /\ Respond(req, found, out)
        /\ UNCHANGED db_lock

(* confirm_funding from get_tx_details to its await of fetch_qearn_amount, or to the
   exception that ends it before; nothing but locals changes between its awaits of
   get_tx_details and get_balance, so the two are one step here.  A call that reaches
   the fetches has written its rows without committing them and keeps the write lock *)
FundingRuns(req, found) ==
    /\ req \in awaiting
    /\ req.kind = "funding"
    /\ ~(db_lock # NoResult /\ db_lock.req = req)
    /\ \E current_balance \in BalancesFetched :
        \E out \in {Locked(FundingOutcome(FundingDatabase, tables, settings, req, found,
                                          current_balance, <<>>))} :
            IF out.http.code = 200
            THEN /\ db_lock' = [status |-> "held", req |-> req, found |-> found]
                 /\ UNCHANGED <<tables, users, registrations, tradeins, awaiting, response>>
                 /\ UNCHANGED <<allocVars, rpcVars, roleVars, codecVars, airdropVars>>
            ELSE /\ Respond(req, found, out)
                 /\ UNCHANGED db_lock

(* the fetches answer or raise, the snapshots are written, the block commits and the
   handler returns; no other connection wrote since the block began *)
FundingCommits(req) ==
    /\ db_lock # NoResult
    /\ db_lock.req = req
    /\ \E assets \in FundingFetches :
        \E out \in {FundingBlock(FundingDatabase, tables, settings,
                                 NormalizeIdentity(req.walletId).value, req.txId,
                                 db_lock.found.tx, assets)} :
            Respond(req, db_lock.found, out)
    /\ db_lock' = NoResult

(* found is what await rpc.get_tx_details(wallet, tx_id) comes back with *)
NextFunding ==
    \E req \in FundingRequests :
        \/ Call(req, MaxAwaiting)
        \/ \E found \in Lookups(req.txId) :
              \/ RegistrationRuns(req, found)
              \/ TradeinRuns(req, found)
              \/ FundingRuns(req, found)
        \/ FundingCommits(req)

SpecFunding == InitFunding /\ [][NextFunding]_vars

(***************************************************************************)
(* Claims about the confirm handlers over one database file                *)
(***************************************************************************)
C27_Step ==
    /\ \A row \in fundings' \ fundings :
          /\ row.amount_credited
                = Min2(row.amount_sent,
                       settings.funding_cap_qu - Funded(FundingDatabase, row.wallet_id))
          /\ \E u \in users' : u.wallet_id = row.wallet_id /\ u.access_info = 1
    /\ \A w \in Wallets :
          SumCredited({f \in fundings' : f.wallet_id = w}) <= settings.funding_cap_qu

(* C27: through every step of the confirm handlers, the amount_credited of a wallet's
   recorded fundings sums to at most funding_cap_qu; a funding that gets recorded is
   credited min(amount_sent, funding_cap_qu - what the wallet was credited before), and
   its wallet has access_info = 1. *)
C27_CreditedWithinCap == [][C27_Step]_vars

(* a funding call has just returned, its wallet is at the cap, and one of its fundings
   was credited with a part of what was sent *)
C27_Witness ==
    /\ response.status = "completed"
    /\ response.req.kind = "funding"
    /\ response.http.code = 200
    /\ Funded(FundingDatabase, WalletA) = settings.funding_cap_qu
    /\ \E row \in fundings : /\ row.wallet_id = WalletA
                             /\ row.tx_id = response.req.txId
                             /\ 0 < row.amount_credited
                             /\ row.amount_credited < row.amount_sent

(* C28: right after a confirm_funding call returned success, the amount_credited it
   returned is the one stored for its tx_id and the cap_remaining it returned is
   funding_cap_qu minus the stored amount_credited total of the wallet, also when the
   tx_id had been submitted before. *)
C28_ResponseAgreesWithDb ==
    (response.status = "completed" /\ response.req.kind = "funding"
        /\ response.http.code = 200)
        => /\ \E row \in fundings :
                /\ row.tx_id = response.req.txId
                /\ row.amount_credited = response.http.amount_credited
           /\ response.http.cap_remaining
                = settings.funding_cap_qu
                    - Funded(FundingDatabase, NormalizeIdentity(response.req.walletId).value)

(* the tx_id values recorded in a table *)
TxIds(rows) == {r.tx_id : r \in rows}

(* C29: with the funding address equal to the registration address, no tx_id is recorded
   in more than one of the registrations, fundings and tradeins tables. *)
C29_OneKindOfClaim ==
    /\ TxIds(registrations) \cap TxIds(fundings) = {}
    /\ TxIds(registrations) \cap TxIds(tradeins) = {}
    /\ TxIds(fundings) \cap TxIds(tradeins) = {}

C30_Step ==
    (response'.status = "completed" /\ awaiting' # awaiting /\ response'.http.code = 400)
        => /\ users' = users
           /\ registrations' = registrations
           /\ fundings' = fundings
           /\ tradeins' = tradeins

(* C30: a step in which a confirm_registration, confirm_funding or confirm_tradein call
   ends with a rejection (status 400) leaves the rows of users, registrations, fundings
   and tradeins as they were. *)
C30_RejectionWritesNothing == [][C30_Step]_vars

(* a funding call was rejected inside its database block, after its INSERT into users,
   and the wallet has no users row *)
C30_Witness ==
    /\ response.status = "completed"
    /\ response.req.kind = "funding"
    /\ response.http = Reject("wallet not registered for community drop")
    /\ ~\E u \in users : u.wallet_id = NormalizeIdentity(response.req.walletId).value
    /\ "fundings" \in tables

====
